---- MODULE Spec2Model ----
(***************************************************************************)
(* A model of jira-mcp: the tool entry points (server.py, tools.py), the   *)
(* JiraClient operations they call (jira_client.py) and the field mapping  *)
(* table (field_mappings.py), against a remote Jira that answers every     *)
(* request with a status code of its own choosing.                         *)
(*                                                                         *)
(* A Python str is the sequence of its pieces: of its characters where the *)
(* code looks into it (lower(), split(), join()), and of a prefix and the  *)
(* rest for a field key, which the code tests with startswith().  A JSON   *)
(* object of known keys is a record; a dict filled key by key is the       *)
(* sequence of its <<key, value>> items in insertion order.                *)
(* None is the value None where a str may stand, and Null where any JSON   *)
(* value may.                                                              *)
(***************************************************************************)
EXTENDS Naturals, Sequences, FiniteSets

VARIABLES
    credentials,    \* what CredentialManager.get_credentials() returns: stored or not
    _client,        \* server.py's module global _client
    field_table,    \* field_mappings.py's module global PROJECT_FIELDS, as loaded
    remote,         \* the remote issue: whether it exists, and its status
    call,           \* the call being answered: entry point, operation, arguments
    acquired,       \* whether the call ran an entry point's _get_client()
    requests,       \* the HTTP requests the call sent, in order, each with its response
    outcome,        \* what the call returned or raised
    constructions   \* how many times an entry point's _get_client() built a JiraClient

vars ==
    <<credentials, _client, field_table, remote, call, acquired, requests, outcome,
      constructions>>

----------------------------------------------------------------------------
(* Bounds of the model. *)

\* the remote offers at most this many transitions at a time
MaxTransitions == 3

\* a dict of fields handed in has at most this many keys
MaxFields == 3

\* a text has at most this many lines
MaxLines == 3

\* constructions of a JiraClient counted: this many stands for this many or more
MaxConstructions == 2

\* threads that call a tool of server.py at the same time
MaxThreads == 3

----------------------------------------------------------------------------
(* Python values. *)

None == <<"None">>

\* a JSON value is tagged with its Python type
Null == [py |-> "NoneType"]
Str(chars) == [py |-> "str", value |-> chars]
Dict(items) == [py |-> "dict", items |-> items]
Pairs(items) == [py |-> "dict items", items |-> items]
Int(n) == [py |-> "int", value |-> n]

\* key in d
has_key(d, key) == \E i \in 1..Len(d) : d[i][1] = key

\* d[key]
dict_get(d, key) == d[CHOOSE i \in 1..Len(d) : d[i][1] = key][2]

\* d[key] = value: a key the dict holds keeps its place
dict_set(d, key, value) ==
    IF has_key(d, key)
    THEN [i \in 1..Len(d) |-> IF d[i][1] = key THEN <<key, value>> ELSE d[i]]
    ELSE Append(d, <<key, value>>)

\* the dict a literal or a comprehension makes of its first n items
RECURSIVE dict_of_first(_, _)
dict_of_first(items, n) ==
    IF n = 0 THEN <<>>
    ELSE dict_set(dict_of_first(items, n - 1), items[n][1], items[n][2])

\* {k: v for k, v in items}
dict_of(items) == dict_of_first(items, Len(items))

\* str.startswith(prefix)
startswith(s, prefix) ==
    /\ Len(s) >= Len(prefix)
    /\ SubSeq(s, 1, Len(prefix)) = prefix

UpperLetters == <<"A","B","C","D","E","F","G","H","I","J","K","L","M",
                  "N","O","P","Q","R","S","T","U","V","W","X","Y","Z">>

LowerLetters == <<"a","b","c","d","e","f","g","h","i","j","k","l","m",
                  "n","o","p","q","r","s","t","u","v","w","x","y","z">>

\* str.lower() on one character
LowerChar(c) ==
    IF \E i \in 1..Len(UpperLetters) : UpperLetters[i] = c
    THEN LowerLetters[CHOOSE i \in 1..Len(UpperLetters) : UpperLetters[i] = c]
    ELSE c

\* str.lower()
lower(s) == [i \in 1..Len(s) |-> LowerChar(s[i])]

\* sep.join(strs)
RECURSIVE join(_, _)
join(sep, strs) ==
    IF Len(strs) = 0 THEN <<>>
    ELSE IF Len(strs) = 1 THEN strs[1]
    ELSE strs[1] \o sep \o join(sep, Tail(strs))

\* "\n"
Newline == <<"\n">>

\* str.split(sep), sep one character
RECURSIVE split(_, _)
split(s, sep) ==
    IF \E i \in 1..Len(s) : s[i] = sep
    THEN LET first == CHOOSE i \in 1..Len(s) :
                        s[i] = sep /\ \A j \in 1..(i - 1) : s[j] # sep
         IN  <<SubSeq(s, 1, first - 1)>> \o split(SubSeq(s, first + 1, Len(s)), sep)
    ELSE <<s>>

\* the characters of a str literal, one per element
ToDo == <<"T","o"," ","D","o">>
to_do == <<"t","o"," ","d","o">>
in_progress == <<"i","n"," ","p","r","o","g","r","e","s","s">>
In_Progress == <<"I","n"," ","P","r","o","g","r","e","s","s">>
IN_PROGRESS == <<"I","N"," ","P","R","O","G","R","E","S","S">>
Done == <<"D","o","n","e">>
Cancelled == <<"C","a","n","c","e","l","l","e","d">>
CommaSpace == <<",", " ">>

Line_1 == <<"L","i","n","e"," ","1">>
Line_3 == <<"L","i","n","e"," ","3">>

----------------------------------------------------------------------------
(* field_mappings.py *)

\* 'customfield_<digits>'
customfield(digits) == <<"customfield_", digits>>

\* PROJECT_FIELDS['ITHELP']
ITHELP_FIELDS ==
    dict_of(<< <<customfield("10055"), <<"work_type">>>> >>)

\* a mutant: the end of the implementation window is given the name of its start
ITCM_FIELDS_window_start_twice ==
    dict_of(<<
      <<customfield("10055"), <<"work_type">>>>,
      <<customfield("10059"), <<"risk_level">>>>,
      <<customfield("10003"), <<"approvers">>>>,
      <<customfield("10060"), <<"affected_systems">>>>,
      <<customfield("10061"), <<"implementation_window_start">>>>,
      <<customfield("10062"), <<"implementation_window_start">>>>,
      <<customfield("10063"), <<"rollback_plan">>>>,
      <<customfield("10068"), <<"approval_date">>>> >>)

\* PROJECT_FIELDS['ITCM']
ITCM_FIELDS ==
    dict_of(<<
      <<customfield("10055"), <<"work_type">>>>,
      <<customfield("10059"), <<"risk_level">>>>,
      <<customfield("10003"), <<"approvers">>>>,
      <<customfield("10060"), <<"affected_systems">>>>,
      <<customfield("10061"), <<"implementation_window_start">>>>,
      <<customfield("10062"), <<"implementation_window_end">>>>,
      <<customfield("10063"), <<"rollback_plan">>>>,
      <<customfield("10068"), <<"approval_date">>>> >>)

\* PROJECT_FIELDS['IT']
IT_FIELDS ==
    dict_of(<<
      <<customfield("10004"), <<"impact">>>>,
      <<customfield("10041"), <<"urgency">>>>,
      <<customfield("10048"), <<"severity">>>>,
      <<customfield("10087"), <<"category">>>>,
      <<customfield("10042"), <<"affected_services">>>>,
      <<customfield("10049"), <<"affected_hardware">>>>,
      <<customfield("10044"), <<"pending_reason">>>>,
      <<customfield("10010"), <<"request_type">>>>,
      <<customfield("10002"), <<"organizations">>>>,
      <<customfield("10034"), <<"request_participants">>>>,
      <<customfield("10045"), <<"major_incident">>>>,
      <<customfield("10047"), <<"responders">>>>,
      <<customfield("10003"), <<"approvers">>>>,
      <<customfield("10035"), <<"satisfaction">>>>,
      <<customfield("10021"), <<"flagged">>>>,
      <<customfield("10001"), <<"team">>>> >>)

\* PROJECT_FIELDS['ITPROJECT']
ITPROJECT_FIELDS ==
    dict_of(<<
      <<customfield("10011"), <<"epic_name">>>>,
      <<customfield("10014"), <<"epic_link">>>>,
      <<customfield("10015"), <<"start_date">>>>,
      <<customfield("10016"), <<"story_points">>>>,
      <<customfield("10020"), <<"sprint">>>>,
      <<customfield("10021"), <<"flagged">>>>,
      <<customfield("10001"), <<"team">>>> >>)

\* PROJECT_FIELDS, as the module's literal gives it
PROJECT_FIELDS ==
    dict_of(<<
      <<"ITHELP", ITHELP_FIELDS>>,
      <<"ITCM", ITCM_FIELDS>>,
      <<"ITPROJ", <<>>>>,
      <<"ITPMO", <<>>>>,
      <<"IT", IT_FIELDS>>,
      <<"ITPROJECT", ITPROJECT_FIELDS>> >>)

\* get_field_mapping, of the table the module holds
get_field_mapping(project_key) ==
    IF has_key(field_table, project_key)
    THEN dict_get(field_table, project_key)
    ELSE <<>>

\* get_reverse_mapping
get_reverse_mapping(project_key) ==
    LET mapping == get_field_mapping(project_key)
    IN  dict_of([i \in 1..Len(mapping) |-> <<mapping[i][2], mapping[i][1]>>])

\* a mutant: a null custom field is kept like any other
RECURSIVE map_custom_fields_loop_keeping_null(_, _, _)
map_custom_fields_loop_keeping_null(mapping, raw_fields, n) ==
    IF n = 0 THEN [result |-> <<>>, unmapped |-> <<>>]
    ELSE LET before == map_custom_fields_loop_keeping_null(mapping, raw_fields, n - 1)
             field_id == raw_fields[n][1]
             value == raw_fields[n][2]
         IN  IF startswith(field_id, <<"customfield_">>)
             THEN IF has_key(mapping, field_id)
                  THEN [before EXCEPT
                          !.result = dict_set(@, dict_get(mapping, field_id), value)]
                  ELSE [before EXCEPT !.unmapped = dict_set(@, field_id, value)]
             ELSE before

\* map_custom_fields: result and unmapped after the first n items of raw_fields
RECURSIVE map_custom_fields_loop(_, _, _)
map_custom_fields_loop(mapping, raw_fields, n) ==
    IF n = 0 THEN [result |-> <<>>, unmapped |-> <<>>]
    ELSE LET before == map_custom_fields_loop(mapping, raw_fields, n - 1)
             field_id == raw_fields[n][1]
             value == raw_fields[n][2]
         IN  IF startswith(field_id, <<"customfield_">>) /\ value # Null
             THEN IF has_key(mapping, field_id)
                  THEN [before EXCEPT
                          !.result = dict_set(@, dict_get(mapping, field_id), value)]
                  ELSE [before EXCEPT !.unmapped = dict_set(@, field_id, value)]
             ELSE before

\* a mutant: the overflow bag is given whether it holds a field or not
map_custom_fields_always_overflow(project_key, raw_fields) ==
    LET mapping == get_field_mapping(project_key)
        looped == map_custom_fields_loop(mapping, raw_fields, Len(raw_fields))
    IN  dict_set(looped.result, <<"custom_fields">>, looped.unmapped)

\* map_custom_fields
map_custom_fields(project_key, raw_fields) ==
    LET mapping == get_field_mapping(project_key)
        looped == map_custom_fields_loop(mapping, raw_fields, Len(raw_fields))
    IN  IF Len(looped.unmapped) > 0
        THEN dict_set(looped.result, <<"custom_fields">>, looped.unmapped)
        ELSE looped.result

\* a mutant: a name the project does not know is not passed through
RECURSIVE reverse_map_fields_loop_known_only(_, _, _)
reverse_map_fields_loop_known_only(reverse, friendly_fields, n) ==
    IF n = 0 THEN <<>>
    ELSE LET before == reverse_map_fields_loop_known_only(reverse, friendly_fields, n - 1)
             name == friendly_fields[n][1]
             value == friendly_fields[n][2]
         IN  IF has_key(reverse, name)
             THEN dict_set(before, dict_get(reverse, name), value)
             ELSE before

\* reverse_map_fields: result after the first n items of friendly_fields
RECURSIVE reverse_map_fields_loop(_, _, _)
reverse_map_fields_loop(reverse, friendly_fields, n) ==
    IF n = 0 THEN <<>>
    ELSE LET before == reverse_map_fields_loop(reverse, friendly_fields, n - 1)
             name == friendly_fields[n][1]
             value == friendly_fields[n][2]
         IN  IF has_key(reverse, name)
             THEN dict_set(before, dict_get(reverse, name), value)
             ELSE dict_set(before, name, value)

\* reverse_map_fields
reverse_map_fields(project_key, friendly_fields) ==
    LET reverse == get_reverse_mapping(project_key)
    IN  reverse_map_fields_loop(reverse, friendly_fields, Len(friendly_fields))

----------------------------------------------------------------------------
(* jira_client.py: the document formatter. *)

\* a mutant: an empty line gets a text run like any other
paragraph_of_always_text(line) ==
    [type |-> "paragraph", content |-> <<[type |-> "text", text |-> line]>>]

\* _to_adf: the paragraph of one line
paragraph_of(line) ==
    IF line # <<>>
    THEN [type |-> "paragraph", content |-> <<[type |-> "text", text |-> line]>>]
    ELSE [type |-> "paragraph", content |-> <<>>]

\* JiraClient._to_adf
_to_adf(text) ==
    LET lines == split(text, "\n")
        paragraphs == [i \in 1..Len(lines) |-> paragraph_of(lines[i])]
    IN  Dict([type |-> "doc",
              version |-> 1,
              content |-> IF paragraphs # <<>> THEN paragraphs
                          ELSE <<[type |-> "paragraph", content |-> <<>>]>>])

\* _extract_description: the texts of the text items of one paragraph
RECURSIVE item_texts(_)
item_texts(items) ==
    IF items = <<>> THEN <<>>
    ELSE (IF items[1].type = "text"
          THEN <<IF "text" \in DOMAIN items[1] THEN items[1].text ELSE <<>>>>
          ELSE <<>>)
         \o item_texts(Tail(items))

\* _extract_description: the list `texts` after the loops over the nodes
RECURSIVE collect_texts(_)
collect_texts(nodes) ==
    IF nodes = <<>> THEN <<>>
    ELSE (IF nodes[1].type = "paragraph"
          THEN item_texts(IF "content" \in DOMAIN nodes[1] THEN nodes[1].content
                          ELSE <<>>)
          ELSE <<>>)
         \o collect_texts(Tail(nodes))

\* bool(value) and str(value), of the values the model hands in
truthy(value) ==
    CASE value.py = "NoneType" -> FALSE
      [] value.py = "str"      -> value.value # <<>>
      [] value.py = "int"      -> value.value # 0
      [] value.py = "dict"     -> DOMAIN value.items # {}
      [] value.py = "dict items" -> Len(value.items) > 0

\* the decimal digits
Digits == <<"0","1","2","3","4","5","6","7","8","9">>

str(value) ==
    CASE value.py = "str" -> value.value
      [] value.py = "int" /\ value.value < 10 -> <<Digits[value.value + 1]>>
      [] value.py = "dict" /\ DOMAIN value.items = {} -> <<"{", "}">>

\* JiraClient._extract_description
_extract_description(description) ==
    IF description = Null
    THEN None
    ELSE IF description.py = "dict"
            /\ "type" \in DOMAIN description.items
            /\ description.items.type = "doc"
    THEN LET texts == collect_texts(IF "content" \in DOMAIN description.items
                                    THEN description.items.content ELSE <<>>)
         IN  IF texts # <<>> THEN join(Newline, texts) ELSE None
    ELSE IF truthy(description) THEN str(description) ELSE None

----------------------------------------------------------------------------
(* The remote and the inputs the model draws. *)

\* lines a text is made of
Lines == {<<>>, Line_1, Line_3, <<"x">>}

\* the projects a caller may name: the configured ones and one that is not
ProjectKeys == {"ITHELP", "ITCM", "ITPROJ", "ITPMO", "IT", "ITPROJECT", "NOPE"}

\* keys of the raw fields of an issue and of the friendly fields of a caller
FieldKeys ==
    <<<<"summary">>, customfield("10055"), <<"work_type">>, <<"risk_level">>,
      customfield("10059"), customfield("99999")>>

\* values of a field: null, or a value
FieldValues == {Null, Str(<<"H","i","g","h">>)}

\* every dict of at most MaxFields of the keys, in the order of FieldKeys
RECURSIVE DictsOver(_, _, _)
DictsOver(from, room, values) ==
    IF from > Len(FieldKeys) \/ room = 0 THEN {<<>>}
    ELSE DictsOver(from + 1, room, values)
         \cup { <<<<FieldKeys[from], v>>>> \o rest :
                 v \in values, rest \in DictsOver(from + 1, room - 1, values) }

FieldDicts == DictsOver(1, MaxFields, FieldValues)

\* the value a caller gives each field it updates
UpdateValue(key) ==
    CASE key = <<"assignee">>   -> {<<"5","b","1","0">>, <<"a","@","b",".","c">>}
      [] key = <<"labels">>     -> {<<>>, <<<<"o","p","s">>>>}
      [] key = <<"components">> -> {<<<<"V","P","N">>>>}
      [] key = <<"description">> -> {Line_1 \o Newline \o Line_3}
      [] OTHER                  -> {<<"H","i","g","h">>}

\* the fields a caller may name in an update: those JiraClient.update_issue
\* knows, and one only the field mapping knows
UpdateFieldKeys ==
    <<<<"summary">>, <<"description">>, <<"priority">>, <<"assignee">>,
      <<"labels">>, <<"components">>, <<"work_type">>>>

\* the dicts a caller may give an update: none of those fields, each of them
\* alone, and all of them together
UpdateDicts ==
    {<<>>}
    \cup UNION { { <<<<UpdateFieldKeys[i], v>>>> : v \in UpdateValue(UpdateFieldKeys[i]) } :
                  i \in 1..Len(UpdateFieldKeys) }
    \cup { [i \in 1..Len(UpdateFieldKeys) |->
              <<UpdateFieldKeys[i], CHOOSE v \in UpdateValue(UpdateFieldKeys[i]) : TRUE>>] }

\* custom_fields as server.update_issue may be given it: left None, empty,
\* or naming a raw field
CustomFieldsArguments ==
    {Null, Pairs(<<>>), Pairs(<<<<customfield("10055"), Str(<<"H","i","g","h">>)>>>>)}

\* descriptions and priorities a caller may give a create: none, the empty
\* string, or a text
Descriptions == {None, <<>>, Line_1 \o Newline \o Line_3}
Priorities == {None, <<>>, <<"H","i","g","h">>}

\* the summary of test_create.py, shortened
Summaries == {<<"T","E","S","T">>}

\* a document as someone wrote it in the remote's editor, part of the one
\* line set in bold: the paragraph has a text run for each part
TwoRuns ==
    Dict([type |-> "doc", version |-> 1,
          content |-> <<[type |-> "paragraph",
                         content |-> <<[type |-> "text", text |-> Line_1],
                                       [type |-> "text", text |-> <<"x">>]>>],
                        [type |-> "paragraph",
                         content |-> <<[type |-> "text", text |-> Line_3]>>]>>])

\* descriptions the remote may hold that no _to_adf made: none, a str, a
\* number, a dict that is no document, a document without content, and the
\* document above
StoredDescriptions ==
    {Null, Str(<<>>), Str(Line_1), Int(0), Int(7), Dict(<<>>),
     Dict([type |-> "doc", version |-> 1]), TwoRuns}

\* single-line summaries a task is created with, and the projects it is
\* created in
TaskSummaries == {<<"T","e","s","t">>, Line_1, <<"x">>}
TaskProjects == {"ITPROJ", "ITCM"}

\* the custom fields the remote holds for the issue: an epic link that is
\* set and a sprint that is not
RemoteCustomFields ==
    << <<customfield("10014"), Str(<<"ITPROJ-9">>)>>, <<customfield("10020"), Null>> >>

\* comments a caller may add, and who may see them: everyone, or a role
Bodies == {Line_1 \o Newline \o Line_3}
Visibilities == {None, <<"role", "Administrators">>}

\* search_issues: `max_results: int = 50`
DEFAULT_MAX_RESULTS == 50

\* search_issues: `if max_results > 100: max_results = 100`
MAX_RESULTS_CAP == 100

\* result limits a caller may ask for: below, at and above the cap
MaxResultsValues == {1, DEFAULT_MAX_RESULTS, MAX_RESULTS_CAP, MAX_RESULTS_CAP + 1, 500}

\* queries a caller may send; the remote, not this program, reads them
Queries == {<<"project = ITHELP">>, <<"project = ">>}

\* search_issues: the fields asked for when the caller names none
DEFAULT_SEARCH_FIELDS ==
    <<<<"key">>, <<"summary">>, <<"status">>, <<"assignee">>, <<"created">>, <<"updated">>>>

\* field selections a caller may give: none, or the one of test_search.py
FieldSelections ==
    {None, <<<<"key">>, <<"summary">>, <<"status">>, <<"priority">>>>}

\* issues as the remote lists them in the answer to a search
FoundIssue(assigned) ==
    [key |-> "ITHELP-3",
     fields |-> [summary |-> <<"V","P","N">>,
                 status |-> [name |-> ToDo],
                 assignee |-> IF assigned THEN [displayName |-> <<"A","n","n">>] ELSE Null,
                 created |-> "2026-02-04T10:00",
                 updated |-> "2026-02-04T11:00"]]

\* answers the remote may give a search: no issue and no total, or issues
\* and the total it counted
SearchAnswers ==
    { <<<<<<"issues">>, <<>>>>>>,
      <<<<<<"issues">>, <<FoundIssue(TRUE), FoundIssue(FALSE)>>>>, <<<<"total">>, 7>>>> }

\* status codes the remote may answer a request about no one issue with
AnyStatusCodes(success) == {success, 304, 400, 404, 500}

\* mappings someone configuring a project may write for two of its fields
WrittenMappings ==
    { dict_of(first \o second) :
        first \in {<<>>} \cup { <<<<customfield("10055"), <<name>>>>>> :
                                  name \in {"work_type", "risk_level"} },
        second \in {<<>>} \cup { <<<<customfield("10059"), <<name>>>>>> :
                                   name \in {"work_type", "risk_level"} } }

\* tables field_mappings.py may be written with: the one it has, and the
\* ones that give ITHELP one of the mappings above
Configurations ==
    {PROJECT_FIELDS} \cup { dict_of(<< <<"ITHELP", mapping>> >>) : mapping \in WrittenMappings }

\* every text of at most MaxLines lines, joined by single newlines
Texts ==
    UNION { { join(Newline, lines) : lines \in [1..n -> Lines] } : n \in 1..MaxLines }

\* the issue the remote holds, and a key it holds no issue for
IssueKeys == {"ITPROJ-1", "ITCM-7"}

\* names a workflow may give its transitions: two differ in case only
OfferedNames == {ToDo, in_progress, In_Progress}

\* names a caller may ask for
TargetNames == {IN_PROGRESS, to_do, In_Progress, Cancelled}

\* names of the statuses of the workflow
StatusNames == {ToDo, In_Progress, Done}

\* the remote's clock, as the issue's "updated" field shows it
Timestamps == {"2026-02-04T10:00", "2026-02-04T11:00"}

\* the opaque id the remote gives the i-th transition it offers
TransitionId(i) == 10 * i + 1

\* every list of transitions the remote may offer: what it offers is its own
\* business, and differs from one request to the next
TransitionLists ==
    UNION { { [i \in 1..n |-> [id |-> TransitionId(i), name |-> names[i]]] :
              names \in [1..n -> OfferedNames] } : n \in 0..MaxTransitions }

\* status codes the remote may answer a request about issue_key with:
\* 2xx only for an issue it holds, 500 standing for every other 4xx or 5xx,
\* and 304 for the 3xx answers the transport does not follow
StatusCodes(rem, issue_key, success) ==
    IF rem.exists /\ issue_key = rem.key
    THEN {success, 304, 400, 404, 500}
    ELSE {304, 404, 500}

\* requests.Response.raise_for_status() raises: on 4xx and 5xx only
IsHTTPError(status_code) == status_code >= 400 /\ status_code < 600

\* the remote did what the request asked
IsSuccess(status_code) == status_code >= 200 /\ status_code < 300

\* requests.Response.json() raises: a 304 answer has no body to decode
json_fails(status_code) == status_code = 304

----------------------------------------------------------------------------
(* jira_client.py: one operator per request a method sends, given the      *)
(* status code the remote answers with.  Each yields the request sent, the *)
(* exception raised (or None) and the value the method goes on with.       *)

\* JiraClient._request: the request as sent, with the response received
Request(method, endpoint, json_data, status_code, data) ==
    [method |-> method, endpoint |-> endpoint, json |-> json_data,
     status_code |-> status_code, data |-> data]

\* JiraClient._request with query parameters
RequestWithParams(method, endpoint, params, status_code, data) ==
    [method |-> method, endpoint |-> endpoint, params |-> params, json |-> None,
     status_code |-> status_code, data |-> data]

\* raise ValueError(...) / raise RuntimeError(...), by its message
Raise(exc, error, detail) ==
    [kind |-> "raise", exc |-> exc, error |-> error, detail |-> detail]

\* return value
Return(value) == [kind |-> "return", value |-> value]

\* response.raise_for_status() on a failed response
HTTPError(status_code) ==
    Raise("HTTPError", "HTTPError", [status_code |-> status_code])

\* response.json() on a response without a body
JSONDecodeError(status_code) ==
    Raise("JSONDecodeError", "JSONDecodeError", [status_code |-> status_code])

\* a mutant: the list of an earlier call is returned, not the one just fetched
get_transitions_cached(issue_key, status_code, offered) ==
    [request |-> Request("GET", <<"/rest/api/3/issue/", issue_key, "/transitions">>,
                         None, status_code, [transitions |-> offered]),
     outcome |-> Return(<<[id |-> TransitionId(1), name |-> ToDo]>>)]

\* JiraClient.get_transitions, the remote offering the transitions `offered`
get_transitions(issue_key, status_code, offered) ==
    LET data == IF IsSuccess(status_code) THEN [transitions |-> offered]
                ELSE [transitions |-> <<>>]
        request == Request("GET", <<"/rest/api/3/issue/", issue_key, "/transitions">>,
                           None, status_code, data)
    IN  IF status_code = 404
        THEN [request |-> request,
              outcome |-> Raise("ValueError", "NotFound", [issue_key |-> issue_key])]
        ELSE IF IsHTTPError(status_code)
        THEN [request |-> request, outcome |-> HTTPError(status_code)]
        ELSE IF json_fails(status_code)
        THEN [request |-> request, outcome |-> JSONDecodeError(status_code)]
        ELSE [request |-> request,
              outcome |-> Return([i \in 1..Len(data.transitions) |->
                                    [id |-> data.transitions[i].id,
                                     name |-> data.transitions[i].name]])]

\* dict.get(key), the default None
get_or_none(d, key, none) == IF has_key(d, key) THEN dict_get(d, key) ELSE none

\* the fields the remote keeps of an issue: those it was created with, where
\* the remote keeps them
fields_kept(rem) == IF "fields" \in DOMAIN rem THEN rem.fields ELSE <<>>

\* JiraClient.get_issue, as far as the summary, the description, the status
\* and the timestamp, the remote's clock showing `updated`
get_issue(rem, issue_key, status_code, updated) ==
    LET data == [key |-> issue_key,
                 fields |-> [summary |-> get_or_none(fields_kept(rem), <<"summary">>, None),
                             description |-> get_or_none(fields_kept(rem),
                                                         <<"description">>, Null),
                             status |-> [name |-> rem.status], updated |-> updated,
                             custom |-> RemoteCustomFields]]
        request == Request("GET", <<"/rest/api/3/issue/", issue_key>>,
                           None, status_code, data)
    IN  IF status_code = 404
        THEN [request |-> request,
              outcome |-> Raise("ValueError", "NotFound", [issue_key |-> issue_key])]
        ELSE IF IsHTTPError(status_code)
        THEN [request |-> request, outcome |-> HTTPError(status_code)]
        ELSE IF json_fails(status_code)
        THEN [request |-> request, outcome |-> JSONDecodeError(status_code)]
        ELSE [request |-> request,
              outcome |-> Return([key |-> data.key,
                                  summary |-> data.fields.summary,
                                  description |->
                                      _extract_description(data.fields.description),
                                  status |-> [name |-> data.fields.status.name],
                                  updated |-> data.fields.updated])]

\* a mutant: a request answered with an error is sent once more
Finish_after_retry(sent, result, rem) ==
    /\ requests' = IF Len(sent) > 0 /\ IsHTTPError(sent[Len(sent)].status_code)
                   THEN Append(sent, sent[Len(sent)])
                   ELSE sent
    /\ outcome' = result
    /\ remote' = rem

\* what a method leaves behind: the requests it sent, its outcome, the remote
Finish(sent, result, rem) ==
    /\ requests' = sent
    /\ outcome' = result
    /\ remote' = rem

\* a mutant: the empty list is not told apart
no_transitions_unchecked(transitions) == FALSE

\* transition_issue: `if not transitions`
no_transitions(transitions) == transitions = <<>>

\* a mutant: whatever is offered is taken for a match
find_matches_any(transitions, transition_name) == transitions

\* a mutant: the names are compared as they are written
find_matches_exact(transitions, transition_name) ==
    SelectSeq(transitions, LAMBDA t : t.name = transition_name)

\* transition_issue: the case-insensitive matches, in the order offered
find_matches(transitions, transition_name) ==
    LET transition_lower == lower(transition_name)
    IN  SelectSeq(transitions, LAMBDA t : lower(t.name) = transition_lower)

\* a mutant: the first match is taken
never_ambiguous(matches) == FALSE

\* transition_issue: `if len(matches) > 1`
is_ambiguous(matches) == Len(matches) > 1

\* a mutant: the last name is left out
names_joined_but_last(transitions) ==
    join(CommaSpace, [i \in 1..(Len(transitions) - 1) |-> transitions[i].name])

\* transition_issue: ", ".join(t["name"] for t in ...)
names_joined(transitions) ==
    join(CommaSpace, [i \in 1..Len(transitions) |-> transitions[i].name])

\* a mutant: the status is taken to be the one the transition is named after
transition_result_assumed(issue_key, transition_name, transition, issue) ==
    [key |-> issue_key,
     new_status |-> transition.name,
     transitioned |-> issue.updated]

\* transition_issue: the result built from the issue fetched after the transition
transition_result(issue_key, transition_name, transition, issue) ==
    [key |-> issue_key,
     new_status |-> issue.status.name,
     transitioned |-> issue.updated]

\* JiraClient.transition_issue
transition_issue(issue_key, transition_name) ==
    \E c1 \in StatusCodes(remote, issue_key, 200), offered \in TransitionLists :
      LET got == get_transitions(issue_key, c1, offered)
          transitions == got.outcome.value
          matches == find_matches(transitions, transition_name)
      IN
      IF got.outcome.kind = "raise"
      THEN Finish(<<got.request>>, got.outcome, remote)
      ELSE IF no_transitions(transitions)
      THEN Finish(<<got.request>>,
                  Raise("ValueError", "NoTransitionsAvailable",
                        [issue_key |-> issue_key]),
                  remote)
      ELSE IF matches = <<>>
      THEN Finish(<<got.request>>,
                  Raise("ValueError", "TransitionNotAvailable",
                        [transition_name |-> transition_name,
                         issue_key |-> issue_key,
                         available |-> names_joined(transitions)]),
                  remote)
      ELSE IF is_ambiguous(matches)
      THEN Finish(<<got.request>>,
                  Raise("ValueError", "AmbiguousTransition",
                        [transition_name |-> transition_name,
                         match_names |-> names_joined(matches)]),
                  remote)
      ELSE
        \E c2 \in StatusCodes(remote, issue_key, 204), landed \in StatusNames :
          LET transition == matches[1]
              payload == [transition |-> [id |-> transition.id]]
              execute == Request("POST",
                                 <<"/rest/api/3/issue/", issue_key, "/transitions">>,
                                 payload, c2, None)
              \* the remote moves the issue where its workflow says, and only
              \* when it accepts the request
              moved == IF IsSuccess(c2) THEN [remote EXCEPT !.status = landed]
                       ELSE remote
          IN
          IF c2 = 400
          THEN Finish(<<got.request, execute>>,
                      Raise("ValueError", "TransitionFailed",
                            [issue_key |-> issue_key]),
                      remote)
          ELSE IF IsHTTPError(c2)
          THEN Finish(<<got.request, execute>>, HTTPError(c2), remote)
          ELSE
            \E c3 \in StatusCodes(moved, issue_key, 200), updated \in Timestamps :
              LET fetched == get_issue(moved, issue_key, c3, updated)
              IN
              IF fetched.outcome.kind = "raise"
              THEN Finish(<<got.request, execute, fetched.request>>,
                          fetched.outcome, moved)
              ELSE Finish(<<got.request, execute, fetched.request>>,
                          Return(transition_result(issue_key, transition_name,
                                                   transition, fetched.outcome.value)),
                          moved)

\* update_issue: {"id": assignee} if "@" not in assignee else {"emailAddress": assignee}
assignee_field(assignee) ==
    IF \A i \in 1..Len(assignee) : assignee[i] # "@"
    THEN [id |-> assignee]
    ELSE [emailAddress |-> assignee]

\* `if x:` for a str or a list that may be None
is_given(x) == x # None /\ Len(x) > 0

\* a mutant: the description is formatted whether given or not
description_never_defaulted(description, summary) ==
    _to_adf(IF description = None THEN <<>> ELSE description)

\* create_issue: the description sent
description_or_summary(description, summary) ==
    IF is_given(description) THEN _to_adf(description) ELSE _to_adf(summary)

\* create_issue: the priority sent
priority_or_medium(priority) ==
    IF is_given(priority) THEN [name |-> priority] ELSE [name |-> <<"M","e","d","i","u","m">>]

\* create_issue: an optional field is set when its argument is given
set_if_given(fields, argument, key, value) ==
    IF is_given(argument) THEN dict_set(fields, key, value) ELSE fields

\* create_issue: the fields of the payload
create_fields(project, issue_type, summary, description, priority, assignee, labels, components, parent_key, epic_link) ==
    LET required == << <<<<"project">>, [key |-> project]>>,
                       <<<<"issuetype">>, [name |-> issue_type]>>,
                       <<<<"summary">>, summary>>,
                       <<<<"description">>, description_or_summary(description, summary)>>,
                       <<<<"priority">>, priority_or_medium(priority)>> >>
        f1 == set_if_given(required, assignee, <<"assignee">>, assignee_field(assignee))
        f2 == set_if_given(f1, labels, <<"labels">>, labels)
        f3 == set_if_given(f2, components, <<"components">>,
                           [i \in 1..Len(components) |-> [name |-> components[i]]])
        f4 == set_if_given(f3, parent_key, <<"parent">>, [key |-> parent_key])
    IN  set_if_given(f4, epic_link, customfield("10014"), epic_link)

\* JiraClient.__init__: self.base_url, the trailing "/" stripped
base_url == "https://company.atlassian.net"

\* the key the remote gives the issue it creates in a project
created_key(project) ==
    CASE project = "ITPROJ" -> "ITPROJ-2"
      [] project = "ITCM"   -> "ITCM-8"

\* the remote after it created an issue: one that keeps what it is sent
\* holds the new issue with the fields of the request
after_create(rem, key, fields) ==
    IF "fields" \in DOMAIN rem
    THEN [key |-> key, exists |-> TRUE, status |-> ToDo, fields |-> fields]
    ELSE rem

\* a mutant: the URL is the key alone
browse_url_without_base(key) == <<key>>

\* create_issue: f"{self.base_url}/browse/{data['key']}"
browse_url(key) == <<base_url, "/browse/", key>>

\* JiraClient.create_issue
create_issue(project, issue_type, summary, description, priority, assignee, labels, components, parent_key, epic_link) ==
    \E c \in AnyStatusCodes(201) :
      LET payload == [fields |-> create_fields(project, issue_type, summary,
                                               description, priority, assignee, labels,
                                               components, parent_key, epic_link)]
          data == IF IsSuccess(c) THEN [key |-> created_key(project)] ELSE None
          request == Request("POST", <<"/rest/api/3/issue">>, payload, c, data)
      IN
      IF c = 400
      THEN Finish(<<request>>,
                  Raise("ValueError", "CreateFailed", [project |-> project]), remote)
      ELSE IF c = 404
      THEN Finish(<<request>>,
                  Raise("ValueError", "ProjectOrIssueTypeNotFound",
                        [project |-> project, issue_type |-> issue_type]),
                  remote)
      ELSE IF IsHTTPError(c)
      THEN Finish(<<request>>, HTTPError(c), remote)
      ELSE IF json_fails(c)
      THEN Finish(<<request>>, JSONDecodeError(c), remote)
      ELSE Finish(<<request>>,
                  Return([key |-> data.key, url |-> browse_url(data.key)]),
                  after_create(remote, data.key, payload.fields))

\* the parameters JiraClient.create_issue takes by keyword
create_issue_parameters ==
    {"project", "issue_type", "summary", "description", "priority", "assignee",
     "labels", "components", "parent_key", "epic_link"}

\* JiraClient.add_comment, the remote's clock showing `created`
add_comment(issue_key, body, visibility) ==
    \E c \in StatusCodes(remote, issue_key, 201), created \in Timestamps :
      LET payload == IF visibility # None
                     THEN [body |-> _to_adf(body), visibility |-> visibility]
                     ELSE [body |-> _to_adf(body)]
          data == IF IsSuccess(c) THEN [id |-> "10400", created |-> created] ELSE None
          request == Request("POST", <<"/rest/api/3/issue/", issue_key, "/comment">>,
                             payload, c, data)
      IN
      IF c = 404
      THEN Finish(<<request>>,
                  Raise("ValueError", "NotFound", [issue_key |-> issue_key]), remote)
      ELSE IF c = 400
      THEN Finish(<<request>>,
                  Raise("ValueError", "CommentFailed", [issue_key |-> issue_key]), remote)
      ELSE IF IsHTTPError(c)
      THEN Finish(<<request>>, HTTPError(c), remote)
      ELSE IF json_fails(c)
      THEN Finish(<<request>>, JSONDecodeError(c), remote)
      ELSE Finish(<<request>>,
                  Return([comment_id |-> data.id, created |-> data.created]), remote)

\* `client.attach_file`: looking up a method the class JiraClient does not define
NoSuchMethod(name) == Raise("AttributeError", "NoSuchMethod", [name |-> name])

\* a mutant: the limit is sent as asked for
max_results_uncapped(max_results) == max_results

\* search_issues: `if max_results > 100: max_results = 100`
max_results_capped(max_results) ==
    IF max_results > MAX_RESULTS_CAP THEN MAX_RESULTS_CAP ELSE max_results

\* search_issues: one issue of the answer, transformed
transformed_issue(issue) ==
    LET fields_data == issue.fields
        shown == [key |-> issue.key,
                  summary |-> fields_data.summary,
                  status |-> fields_data.status.name,
                  created |-> fields_data.created,
                  updated |-> fields_data.updated]
    IN  IF fields_data.assignee # Null
        THEN [key |-> shown.key, summary |-> shown.summary, status |-> shown.status,
              created |-> shown.created, updated |-> shown.updated,
              assignee |-> fields_data.assignee.displayName]
        ELSE shown

\* JiraClient.search_issues
search_issues(jql, max_results, fields) ==
    \E c \in AnyStatusCodes(200), answer \in SearchAnswers :
      LET selected == IF fields = None THEN DEFAULT_SEARCH_FIELDS ELSE fields
          params == [jql |-> jql,
                     maxResults |-> max_results_capped(max_results),
                     fields |-> join(<<",">>, selected)]
          data == IF IsSuccess(c) THEN answer ELSE <<>>
          request == RequestWithParams("GET", <<"/rest/api/3/search/jql">>,
                                       params, c, data)
          found == dict_get(data, <<"issues">>)
          issues == [i \in 1..Len(found) |-> transformed_issue(found[i])]
      IN
      IF c = 400
      THEN Finish(<<request>>, Raise("ValueError", "InvalidJQL", [jql |-> jql]), remote)
      ELSE IF IsHTTPError(c)
      THEN Finish(<<request>>, HTTPError(c), remote)
      ELSE IF json_fails(c)
      THEN Finish(<<request>>, JSONDecodeError(c), remote)
      ELSE Finish(<<request>>,
                  Return([total |-> IF has_key(data, <<"total">>)
                                    THEN dict_get(data, <<"total">>)
                                    ELSE Len(issues),
                          issues |-> issues]),
                  remote)

\* JiraClient.delete_issue; deleted_at is the local clock's `now`
delete_issue(issue_key) ==
    \E c \in StatusCodes(remote, issue_key, 204), now \in Timestamps :
      LET request == Request("DELETE", <<"/rest/api/3/issue/", issue_key>>,
                             None, c, None)
      IN
      IF c = 404
      THEN Finish(<<request>>,
                  Raise("ValueError", "NotFound", [issue_key |-> issue_key]), remote)
      ELSE IF c = 400
      THEN Finish(<<request>>,
                  Raise("ValueError", "DeleteFailed", [issue_key |-> issue_key]), remote)
      ELSE IF IsHTTPError(c)
      THEN Finish(<<request>>, HTTPError(c), remote)
      ELSE Finish(<<request>>,
                  Return([key |-> issue_key, deleted |-> TRUE, deleted_at |-> now]),
                  IF IsSuccess(c) THEN [remote EXCEPT !.exists = FALSE] ELSE remote)

\* a mutant: the labels given are added to labels the issue is taken to have
update_field_merging(key, value) ==
    CASE key = <<"summary">>     -> value
      [] key = <<"description">> -> _to_adf(value)
      [] key = <<"priority">>    -> [name |-> value]
      [] key = <<"assignee">>    -> assignee_field(value)
      [] key = <<"labels">>      -> <<<<"o","l","d">>>> \o value
      [] key = <<"components">>  -> [i \in 1..Len(value) |-> [name |-> value[i]]]

\* update_issue: what one field of the caller becomes in update_fields
update_field(key, value) ==
    CASE key = <<"summary">>     -> value
      [] key = <<"description">> -> _to_adf(value)
      [] key = <<"priority">>    -> [name |-> value]
      [] key = <<"assignee">>    -> assignee_field(value)
      [] key = <<"labels">>      -> value
      [] key = <<"components">>  -> [i \in 1..Len(value) |-> [name |-> value[i]]]

\* update_issue: the keys it looks for, in the order it looks for them
UpdateKeys ==
    <<<<"summary">>, <<"description">>, <<"priority">>, <<"assignee">>,
      <<"labels">>, <<"components">>>>

\* update_issue: update_fields after the first n of those keys
RECURSIVE update_fields_after(_, _)
update_fields_after(fields, n) ==
    IF n = 0 THEN <<>>
    ELSE IF has_key(fields, UpdateKeys[n])
         THEN dict_set(update_fields_after(fields, n - 1), UpdateKeys[n],
                       update_field(UpdateKeys[n], dict_get(fields, UpdateKeys[n])))
         ELSE update_fields_after(fields, n - 1)

\* JiraClient.update_issue
update_issue(issue_key, fields) ==
    \E c1 \in StatusCodes(remote, issue_key, 204) :
      LET update_fields == update_fields_after(fields, Len(UpdateKeys))
          payload == [fields |-> update_fields]
          put == Request("PUT", <<"/rest/api/3/issue/", issue_key>>, payload, c1, None)
      IN
      IF c1 = 404
      THEN Finish(<<put>>,
                  Raise("ValueError", "NotFound", [issue_key |-> issue_key]), remote)
      ELSE IF c1 = 400
      THEN Finish(<<put>>,
                  Raise("ValueError", "UpdateFailed", [issue_key |-> issue_key]), remote)
      ELSE IF IsHTTPError(c1)
      THEN Finish(<<put>>, HTTPError(c1), remote)
      ELSE
        \E c2 \in StatusCodes(remote, issue_key, 200), updated \in Timestamps :
          LET issue == get_issue(remote, issue_key, c2, updated)
          IN
          IF issue.outcome.kind = "raise"
          THEN Finish(<<put, issue.request>>, issue.outcome, remote)
          ELSE Finish(<<put, issue.request>>,
                      Return([key |-> issue_key,
                              updated |-> issue.outcome.value.updated]),
                      remote)

\* the parameters JiraClient.update_issue takes by keyword
update_issue_parameters == {"issue_key", "fields"}

----------------------------------------------------------------------------
(* server.py and tools.py: the entry points. *)

\* a JiraClient object
JiraClient == <<"JiraClient">>

\* how a call reaches a JiraClient method: a tool of server.py, a function of
\* tools.py, or the method itself on a client the caller holds
Entries == {"server", "tools", "client"}

\* a mutant: a client is built of whatever get_credentials() returns
client_always_available(entry) == TRUE

\* whether the entry point's _get_client() returns a client: server.py keeps
\* the one it built, tools.py reads the credentials on every call
client_available(entry) ==
    CASE entry = "server" -> _client # None \/ credentials
      [] entry = "tools"  -> credentials
      [] OTHER            -> TRUE

\* whether the entry point's _get_client() runs JiraClient(...): server.py
\* when it holds none yet, tools.py whenever it finds credentials
builds_client(entry) ==
    CASE entry = "server" -> _client = None /\ credentials
      [] entry = "tools"  -> credentials
      [] OTHER            -> FALSE

\* _get_client() raises
CredentialsMissing == Raise("RuntimeError", "CredentialsMissing", [none |-> TRUE])

\* an entry point that does nothing before `client = _get_client()` and then
\* returns what the method returns
ViaClient(entry, method) ==
    /\ acquired' = (entry # "client")
    /\ constructions' = IF builds_client(entry) /\ constructions < MaxConstructions
                        THEN constructions + 1
                        ELSE constructions
    /\ IF client_available(entry)
       THEN /\ _client' = IF entry = "server" THEN JiraClient ELSE _client
            /\ method
       ELSE /\ _client' = _client
            /\ Finish(<<>>, CredentialsMissing, remote)

\* no call is being answered
NoCall == [op |-> "none"]

NoOutcome == [kind |-> "none"]

\* server.transition_issue, tools.transition_issue_tool, JiraClient.transition_issue
TransitionIssue ==
    /\ call = NoCall
    /\ \E entry \in Entries, issue_key \in IssueKeys, transition_name \in TargetNames :
         /\ call' = [op |-> "transition_issue", entry |-> entry,
                     issue_key |-> issue_key, transition_name |-> transition_name]
         /\ ViaClient(entry, transition_issue(issue_key, transition_name))
    /\ UNCHANGED <<credentials, field_table>>

\* a mutant: the flag is not looked at
confirmation_never_missing(confirm_delete) == FALSE

\* server.delete_issue, tools.delete_issue_tool: `if not confirm_delete`
confirmation_missing(confirm_delete) == ~confirm_delete

\* server.delete_issue and tools.delete_issue_tool, with confirm_delete given
\* or left False; JiraClient.delete_issue, which takes no such flag
DeleteIssue ==
    /\ call = NoCall
    /\ \/ \E entry \in {"server", "tools"}, issue_key \in IssueKeys,
              confirm_delete \in BOOLEAN :
            /\ call' = [op |-> "delete_issue", entry |-> entry,
                        issue_key |-> issue_key, confirm_delete |-> confirm_delete]
            /\ IF confirmation_missing(confirm_delete)
               THEN /\ acquired' = FALSE
                    /\ _client' = _client
                    /\ constructions' = constructions
                    /\ Finish(<<>>,
                              Raise("ValueError", "ConfirmationRequired",
                                    [issue_key |-> issue_key]),
                              remote)
               ELSE ViaClient(entry, delete_issue(issue_key))
       \/ \E issue_key \in IssueKeys :
            /\ call' = [op |-> "delete_issue", entry |-> "client",
                        issue_key |-> issue_key]
            /\ ViaClient("client", delete_issue(issue_key))
    /\ UNCHANGED <<credentials, field_table>>

\* server.update_issue: the parameters a field is given by, in its order
ServerUpdateParameters ==
    <<<<"summary">>, <<"description">>, <<"priority">>, <<"assignee">>,
      <<"labels">>, <<"components">>, <<"work_type">>, <<"risk_level">>,
      <<"approvers">>, <<"affected_systems">>, <<"implementation_window_start">>,
      <<"implementation_window_end">>, <<"rollback_plan">>>>

\* server.update_issue: `fields`, of the arguments that are not None, after
\* the first n parameters
RECURSIVE server_fields_after(_, _)
server_fields_after(arguments, n) ==
    IF n = 0 THEN <<>>
    ELSE IF has_key(arguments, ServerUpdateParameters[n])
         THEN dict_set(server_fields_after(arguments, n - 1), ServerUpdateParameters[n],
                       dict_get(arguments, ServerUpdateParameters[n]))
         ELSE server_fields_after(arguments, n - 1)

\* server.update_issue: `not fields and not custom_fields`
nothing_to_update(fields, custom_fields) ==
    Len(fields) = 0 /\ ~truthy(custom_fields)

\* server.update_issue; its call of client.update_issue names custom_fields
ServerUpdateIssue ==
    /\ call = NoCall
    /\ \E issue_key \in IssueKeys, arguments \in UpdateDicts,
          custom_fields \in CustomFieldsArguments :
         LET fields == server_fields_after(arguments, Len(ServerUpdateParameters))
         IN
         /\ call' = [op |-> "update_issue", entry |-> "server",
                     issue_key |-> issue_key, fields |-> arguments,
                     custom_fields |-> custom_fields]
         /\ IF nothing_to_update(fields, custom_fields)
            THEN /\ acquired' = FALSE
                 /\ _client' = _client
                 /\ constructions' = constructions
                 /\ Finish(<<>>,
                           Raise("ValueError", "NoFieldsProvided",
                                 [issue_key |-> issue_key]),
                           remote)
            ELSE ViaClient("server",
                   IF {"issue_key", "fields", "custom_fields"} \subseteq update_issue_parameters
                   THEN update_issue(issue_key, fields)
                   ELSE Finish(<<>>,
                               Raise("TypeError", "UnexpectedKeyword",
                                     [keyword |-> "custom_fields"]),
                               remote))
    /\ UNCHANGED <<credentials, field_table>>

\* tools.update_issue_tool and JiraClient.update_issue
UpdateIssue ==
    /\ call = NoCall
    /\ \E entry \in {"tools", "client"}, issue_key \in IssueKeys,
          fields \in UpdateDicts :
         /\ call' = [op |-> "update_issue", entry |-> entry,
                     issue_key |-> issue_key, fields |-> fields,
                     custom_fields |-> Null]
         /\ ViaClient(entry, update_issue(issue_key, fields))
    /\ UNCHANGED <<credentials, field_table>>

\* server.get_issue, tools.get_issue_tool, JiraClient.get_issue
GetIssue ==
    /\ call = NoCall
    /\ \E entry \in Entries, issue_key \in IssueKeys :
         /\ call' = [op |-> "get_issue", entry |-> entry, issue_key |-> issue_key]
         /\ ViaClient(entry,
               \E c \in StatusCodes(remote, issue_key, 200), updated \in Timestamps :
                 LET got == get_issue(remote, issue_key, c, updated)
                 IN  Finish(<<got.request>>, got.outcome, remote))
    /\ UNCHANGED <<credentials, field_table>>

\* server.get_transitions, tools.get_transitions_tool, JiraClient.get_transitions
GetTransitions ==
    /\ call = NoCall
    /\ \E entry \in Entries, issue_key \in IssueKeys :
         /\ call' = [op |-> "get_transitions", entry |-> entry, issue_key |-> issue_key]
         /\ ViaClient(entry,
               \E c \in StatusCodes(remote, issue_key, 200), offered \in TransitionLists :
                 LET got == get_transitions(issue_key, c, offered)
                 IN  Finish(<<got.request>>, got.outcome, remote))
    /\ UNCHANGED <<credentials, field_table>>

\* server.add_comment, which takes no visibility, tools.add_comment_tool and
\* JiraClient.add_comment, which do
AddComment ==
    /\ call = NoCall
    /\ \E entry \in Entries, issue_key \in IssueKeys, body \in Bodies,
          visibility \in Visibilities :
         /\ entry = "server" => visibility = None
         /\ call' = [op |-> "add_comment", entry |-> entry, issue_key |-> issue_key,
                     body |-> body, visibility |-> visibility]
         /\ ViaClient(entry, add_comment(issue_key, body, visibility))
    /\ UNCHANGED <<credentials, field_table>>

\* server.attach_file, of a path that names a file or does not: the path is
\* resolved, the client acquired, and its attach_file, which JiraClient does
\* not define, looked up
AttachFile ==
    /\ call = NoCall
    /\ \E issue_key \in IssueKeys, file_exists \in BOOLEAN :
         /\ call' = [op |-> "attach_file", entry |-> "server", issue_key |-> issue_key,
                     file_exists |-> file_exists]
         /\ ViaClient("server", Finish(<<>>, NoSuchMethod("attach_file"), remote))
    /\ UNCHANGED <<credentials, field_table>>

\* a keyword of the call that the method does not take
UnexpectedKeyword(keywords, parameters) ==
    Raise("TypeError", "UnexpectedKeyword",
          [keyword |-> CHOOSE k \in keywords \ parameters : TRUE])

\* the keywords server.create_issue and tools.create_issue_tool add to those
\* of JiraClient.create_issue when they call it
CreateKeywords(entry) ==
    CASE entry = "server" ->
           create_issue_parameters \cup
           {"work_type", "risk_level", "approvers", "affected_systems",
            "implementation_window_start", "implementation_window_end",
            "rollback_plan", "custom_fields"}
      [] entry = "tools" -> create_issue_parameters \cup {"custom_fields"}
      [] OTHER -> create_issue_parameters

\* server.create_issue, tools.create_issue_tool, JiraClient.create_issue: the
\* optional arguments are given or left None
CreateIssue ==
    /\ call = NoCall
    /\ \E entry \in Entries, summary \in Summaries, description \in Descriptions,
          priority \in Priorities, assignee \in {None, <<"a","@","b",".","c">>},
          rest \in BOOLEAN :
         LET labels == IF rest THEN <<<<"o","p","s">>>> ELSE None
             components == IF rest THEN <<<<"V","P","N">>>> ELSE None
             parent_key == IF rest THEN <<"ITPROJ-1">> ELSE None
             epic_link == IF rest THEN <<"ITPROJ-9">> ELSE None
         IN
         /\ call' = [op |-> "create_issue", entry |-> entry, project |-> "ITPROJ",
                     issue_type |-> "Task", summary |-> summary,
                     description |-> description, priority |-> priority,
                     assignee |-> assignee, rest |-> rest]
         /\ ViaClient(entry,
               IF CreateKeywords(entry) \subseteq create_issue_parameters
               THEN create_issue("ITPROJ", "Task", summary, description, priority,
                                 assignee, labels, components, parent_key, epic_link)
               ELSE Finish(<<>>,
                           UnexpectedKeyword(CreateKeywords(entry), create_issue_parameters),
                           remote))
    /\ UNCHANGED <<credentials, field_table>>

\* server.search_issues, tools.search_issues_tool, JiraClient.search_issues,
\* with max_results given or left to its default
SearchIssues ==
    /\ call = NoCall
    /\ \E entry \in Entries, jql \in Queries, max_results \in MaxResultsValues,
          fields \in FieldSelections :
         /\ call' = [op |-> "search_issues", entry |-> entry, jql |-> jql,
                     max_results |-> max_results, fields |-> fields]
         /\ ViaClient(entry, search_issues(jql, max_results, fields))
    /\ UNCHANGED <<credentials, field_table>>

\* test_create_task: `result = client.create_issue(...)`, with a description
\* or without one, on a client the test builds itself
CreateTask ==
    /\ call = NoCall
    /\ \E project \in TaskProjects, summary \in TaskSummaries,
          description \in Descriptions :
         /\ call' = [op |-> "create_issue", entry |-> "client", project |-> project,
                     issue_type |-> "Task", summary |-> summary,
                     description |-> description, priority |-> None,
                     assignee |-> None, rest |-> FALSE]
         /\ ViaClient("client",
               create_issue(project, "Task", summary, description, None,
                            None, None, None, None, None))
    /\ UNCHANGED <<credentials, field_table>>

\* test_create_task: `issue = client.get_issue(result["key"])`, after the
\* create returned
VerifyCreated ==
    /\ call.op = "create_issue"
    /\ outcome.kind = "return"
    /\ LET issue_key == outcome.value.key
       IN  /\ call' = [op |-> "get_issue", entry |-> "client", issue_key |-> issue_key,
                       created |-> call]
           /\ ViaClient("client",
                 \E c \in StatusCodes(remote, issue_key, 200), updated \in Timestamps :
                   LET got == get_issue(remote, issue_key, c, updated)
                   IN  Finish(<<got.request>>, got.outcome, remote))
    /\ UNCHANGED <<credentials, field_table>>

\* the caller takes the result; the process waits for the next call
ReturnToCaller ==
    /\ call # NoCall
    /\ call' = NoCall
    /\ acquired' = FALSE
    /\ requests' = <<>>
    /\ outcome' = NoOutcome
    /\ UNCHANGED <<credentials, _client, field_table, remote, constructions>>

\* scripts/setup_credentials.py stores the credentials
SetupCredentials ==
    /\ call = NoCall
    /\ ~credentials
    /\ credentials' = TRUE
    /\ UNCHANGED <<_client, field_table, remote, call, acquired, requests, outcome,
                   constructions>>

\* a text is formatted as a document
FormatText ==
    /\ call = NoCall
    /\ \E text \in Texts :
         /\ call' = [op |-> "_to_adf", text |-> text]
         /\ outcome' = Return(_to_adf(text))
    /\ UNCHANGED <<credentials, _client, field_table, remote, acquired, requests,
                   constructions>>

\* the document just made is read back as text
ReadBack ==
    /\ call.op = "_to_adf"
    /\ call' = [op |-> "_extract_description", description |-> outcome.value,
                made_from |-> call.text]
    /\ outcome' = Return(_extract_description(outcome.value))
    /\ UNCHANGED <<credentials, _client, field_table, remote, acquired, requests,
                   constructions>>

\* a description that no _to_adf made is read as text
ReadDescription ==
    /\ call = NoCall
    /\ \E description \in StoredDescriptions :
         /\ call' = [op |-> "_extract_description", description |-> description,
                     made_from |-> None]
         /\ outcome' = Return(_extract_description(description))
    /\ UNCHANGED <<credentials, _client, field_table, remote, acquired, requests,
                   constructions>>

\* the table is not loaded before field_mappings.py is imported
NotLoaded == <<>>

\* get_reverse_mapping(project_key)
GetReverseMapping ==
    /\ call = NoCall
    /\ field_table # NotLoaded
    /\ \E project_key \in ProjectKeys :
         /\ call' = [op |-> "get_reverse_mapping", project_key |-> project_key]
         /\ outcome' = Return(get_reverse_mapping(project_key))
    /\ UNCHANGED <<credentials, _client, field_table, remote, acquired, requests,
                   constructions>>

\* map_custom_fields(project_key, raw_fields)
MapCustomFields ==
    /\ call = NoCall
    /\ field_table # NotLoaded
    /\ \E project_key \in ProjectKeys, raw_fields \in FieldDicts :
         /\ call' = [op |-> "map_custom_fields", project_key |-> project_key,
                     raw_fields |-> raw_fields]
         /\ outcome' = Return(map_custom_fields(project_key, raw_fields))
    /\ UNCHANGED <<credentials, _client, field_table, remote, acquired, requests,
                   constructions>>

\* reverse_map_fields(project_key, friendly_fields)
ReverseMapFields ==
    /\ call = NoCall
    /\ field_table # NotLoaded
    /\ \E project_key \in ProjectKeys, friendly_fields \in FieldDicts :
         /\ call' = [op |-> "reverse_map_fields", project_key |-> project_key,
                     friendly_fields |-> friendly_fields]
         /\ outcome' = Return(reverse_map_fields(project_key, friendly_fields))
    /\ UNCHANGED <<credentials, _client, field_table, remote, acquired, requests,
                   constructions>>

\* `import jira_mcp.field_mappings`: the module's body assigns PROJECT_FIELDS
\* and defines the functions, and nothing else
ImportFieldMappings ==
    /\ call = NoCall
    /\ field_table = NotLoaded
    /\ \E configuration \in Configurations :
         /\ field_table' = configuration
         /\ call' = [op |-> "import field_mappings"]
         /\ outcome' = Return(None)
    /\ UNCHANGED <<credentials, _client, remote, acquired, requests, constructions>>

Init ==
    /\ credentials \in BOOLEAN
    /\ _client = None
    /\ field_table = PROJECT_FIELDS
    /\ remote \in [key : {"ITPROJ-1"}, exists : {TRUE}, status : StatusNames]
    /\ call = NoCall
    /\ acquired = FALSE
    /\ constructions = 0
    /\ requests = <<>>
    /\ outcome = NoOutcome

Next ==
    \/ TransitionIssue
    \/ DeleteIssue
    \/ ServerUpdateIssue
    \/ UpdateIssue
    \/ SearchIssues
    \/ CreateIssue
    \/ GetIssue
    \/ GetTransitions
    \/ AddComment
    \/ AttachFile
    \/ ReturnToCaller
    \/ SetupCredentials

Spec == Init /\ [][Next]_vars

\* the document formatter alone
NextRich ==
    \/ FormatText
    \/ ReadBack
    \/ ReadDescription
    \/ ReturnToCaller

\* the process as started, where only pure functions are called
InitPure ==
    /\ credentials = FALSE
    /\ _client = None
    /\ field_table = PROJECT_FIELDS
    /\ remote = [key |-> "ITPROJ-1", exists |-> TRUE, status |-> ToDo]
    /\ call = NoCall
    /\ acquired = FALSE
    /\ constructions = 0
    /\ requests = <<>>
    /\ outcome = NoOutcome

SpecRich == InitPure /\ [][NextRich]_vars

\* the field mapping alone
NextFields ==
    \/ GetReverseMapping
    \/ MapCustomFields
    \/ ReverseMapFields
    \/ ReturnToCaller

SpecFields == InitPure /\ [][NextFields]_vars

\* the field mapping over any table it may be written with
InitConfig ==
    /\ credentials = FALSE
    /\ _client = None
    /\ field_table = NotLoaded
    /\ remote = [key |-> "ITPROJ-1", exists |-> TRUE, status |-> ToDo]
    /\ call = NoCall
    /\ acquired = FALSE
    /\ constructions = 0
    /\ requests = <<>>
    /\ outcome = NoOutcome

NextConfig ==
    \/ ImportFieldMappings
    \/ GetReverseMapping
    \/ MapCustomFields
    \/ ReverseMapFields
    \/ ReturnToCaller

SpecConfig == InitConfig /\ [][NextConfig]_vars

\* server._get_client run by several threads at once, statement by statement;
\* call[t] is where thread t stands, what it built and what it was returned
Threads == 1..MaxThreads

\* the JiraClient object thread t built
JiraClientOf(t) == <<"JiraClient", t>>

NotStarted == [pc |-> "not started", built |-> None, returned |-> None]

\* what a thread does next, the rest of the state left alone
ThreadStep(t, next) ==
    /\ call' = [call EXCEPT ![t] = next]
    /\ UNCHANGED <<credentials, field_table, remote, acquired, requests, outcome>>

\* a tool is called on thread t: `client = _get_client()`
EnterGetClient ==
    \E t \in Threads :
      /\ call[t].pc = "not started"
      /\ ThreadStep(t, [call[t] EXCEPT !.pc = "if _client is None"])
      /\ UNCHANGED <<_client, constructions>>

\* `if _client is None:`
TestClient ==
    \E t \in Threads :
      /\ call[t].pc = "if _client is None"
      /\ ThreadStep(t, [call[t] EXCEPT !.pc = IF _client = None
                                              THEN "get_credentials"
                                              ELSE "return _client"])
      /\ UNCHANGED <<_client, constructions>>

\* `credentials = manager.get_credentials()` and `if not credentials: raise`
GetCredentials ==
    \E t \in Threads :
      /\ call[t].pc = "get_credentials"
      /\ ThreadStep(t, [call[t] EXCEPT !.pc = IF credentials THEN "JiraClient(...)"
                                              ELSE "raised"])
      /\ UNCHANGED <<_client, constructions>>

\* `JiraClient(...)`, the right-hand side of the assignment
BuildClient ==
    \E t \in Threads :
      /\ call[t].pc = "JiraClient(...)"
      /\ ThreadStep(t, [call[t] EXCEPT !.pc = "_client =", !.built = JiraClientOf(t)])
      /\ constructions' = IF constructions < MaxConstructions
                          THEN constructions + 1 ELSE constructions
      /\ UNCHANGED _client

\* `_client = ...`: the global is assigned what the thread built
AssignClient ==
    \E t \in Threads :
      /\ call[t].pc = "_client ="
      /\ ThreadStep(t, [call[t] EXCEPT !.pc = "return _client"])
      /\ _client' = call[t].built
      /\ UNCHANGED constructions

\* `return _client`: the global as it is now
ReturnClient ==
    \E t \in Threads :
      /\ call[t].pc = "return _client"
      /\ ThreadStep(t, [call[t] EXCEPT !.pc = "returned", !.returned = _client])
      /\ UNCHANGED <<_client, constructions>>

InitThreads ==
    /\ credentials \in BOOLEAN
    /\ _client = None
    /\ field_table = PROJECT_FIELDS
    /\ remote = [key |-> "ITPROJ-1", exists |-> TRUE, status |-> ToDo]
    /\ call = [t \in Threads |-> NotStarted]
    /\ acquired = FALSE
    /\ constructions = 0
    /\ requests = <<>>
    /\ outcome = NoOutcome

NextThreads ==
    \/ EnterGetClient
    \/ TestClient
    \/ GetCredentials
    \/ BuildClient
    \/ AssignClient
    \/ ReturnClient

SpecThreads == InitThreads /\ [][NextThreads]_vars

\* a task is created and read again, the remote keeping the fields it is sent
InitStore ==
    /\ credentials = TRUE
    /\ _client = None
    /\ field_table = PROJECT_FIELDS
    /\ remote = [key |-> "ITPROJ-1", exists |-> FALSE, status |-> ToDo, fields |-> <<>>]
    /\ call = NoCall
    /\ acquired = FALSE
    /\ constructions = 0
    /\ requests = <<>>
    /\ outcome = NoOutcome

NextStore ==
    \/ CreateTask
    \/ VerifyCreated
    \/ ReturnToCaller

SpecStore == InitStore /\ [][NextStore]_vars

----------------------------------------------------------------------------
(* What the claims say, in terms of the requests a call sent. *)

\* two names are the same but for the case of their letters
SameIgnoringCase(a, b) ==
    /\ Len(a) = Len(b)
    /\ \A i \in 1..Len(a) : LowerChar(a[i]) = LowerChar(b[i])

\* the call is a transition_issue whose fetch of the transitions succeeded
TransitionsFetched ==
    /\ call.op = "transition_issue"
    /\ requests # <<>>
    /\ IsSuccess(requests[1].status_code)

\* the transitions the remote offered this call, as its response listed them
Offered == requests[1].data.transitions

\* the positions of the offered transitions the target names, whatever the case
MatchingPositions ==
    {i \in 1..Len(Offered) : SameIgnoringCase(Offered[i].name, call.transition_name)}

\* the transition-execute requests the call sent
ExecuteRequests == {k \in 1..Len(requests) : requests[k].method = "POST"}

\* the names at the given positions (ascending), joined as the messages join them
RECURSIVE NamesAt(_, _)
NamesAt(positions, from) ==
    IF from > Len(Offered) THEN <<>>
    ELSE IF from \in positions
         THEN <<Offered[from].name>> \o NamesAt(positions, from + 1)
         ELSE NamesAt(positions, from + 1)

\* C1: when exactly one offered transition has the target's name up to case,
\* the call sends one execute request and it carries that transition's id.
C1_UniqueMatchIsExecuted ==
    (TransitionsFetched /\ Cardinality(MatchingPositions) = 1) =>
        /\ ExecuteRequests = {2}
        /\ requests[2].endpoint = <<"/rest/api/3/issue/", call.issue_key, "/transitions">>
        /\ \A i \in MatchingPositions : requests[2].json.transition.id = Offered[i].id

\* the example of the specification: 'IN PROGRESS' among To Do and in progress
C1_Witness ==
    /\ TransitionsFetched
    /\ Len(Offered) = 2
    /\ Offered[1].name = ToDo /\ Offered[2].name = in_progress
    /\ call.transition_name = IN_PROGRESS
    /\ Len(requests) >= 2
    /\ requests[2].json.transition.id = Offered[2].id

\* C2: when transitions are offered and none has the target's name up to case,
\* the call raises the not-available error listing every offered name in order.
C2_NoMatchListsAllNames ==
    (TransitionsFetched /\ Offered # <<>> /\ MatchingPositions = {}) =>
        /\ outcome.kind = "raise"
        /\ outcome.error = "TransitionNotAvailable"
        /\ outcome.detail.available = join(CommaSpace, NamesAt(1..Len(Offered), 1))

\* 'Cancelled' among To Do and in progress: "To Do, in progress"
C2_Witness ==
    /\ TransitionsFetched
    /\ Len(Offered) = 2
    /\ Offered[1].name = ToDo /\ Offered[2].name = in_progress
    /\ call.transition_name = Cancelled
    /\ outcome.kind = "raise"
    /\ outcome.detail.available = ToDo \o CommaSpace \o in_progress

\* C3: when two or more offered transitions have the target's name up to case,
\* the call raises the ambiguity error naming exactly those and executes none.
C3_AmbiguousIsRefused ==
    (TransitionsFetched /\ Cardinality(MatchingPositions) >= 2) =>
        /\ outcome.kind = "raise"
        /\ outcome.error = "AmbiguousTransition"
        /\ outcome.detail.match_names = join(CommaSpace, NamesAt(MatchingPositions, 1))
        /\ ExecuteRequests = {}

\* 'IN PROGRESS' among in progress and In Progress
C3_Witness ==
    /\ TransitionsFetched
    /\ Len(Offered) = 2
    /\ Offered[1].name = in_progress /\ Offered[2].name = In_Progress
    /\ call.transition_name = IN_PROGRESS
    /\ outcome.kind = "raise"
    /\ outcome.detail.match_names = in_progress \o CommaSpace \o In_Progress

\* C4: when the remote offers no transition, the call raises the
\* no-transitions error whatever the target, never the not-available error.
C4_EmptyListIsNoTransitions ==
    (TransitionsFetched /\ Offered = <<>>) =>
        /\ outcome.kind = "raise"
        /\ outcome.error = "NoTransitionsAvailable"
        /\ Len(requests) = 1

C4_Witness ==
    /\ TransitionsFetched
    /\ Offered = <<>>
    /\ call.transition_name = Cancelled
    /\ outcome.kind = "raise"
    /\ outcome.error = "NoTransitionsAvailable"

\* C5: a transition_issue that returns has fetched the issue after the execute
\* request succeeded, and its new_status is the status name of that response,
\* which is the status the remote holds.
C5_NewStatusIsRefetched ==
    (call.op = "transition_issue" /\ outcome.kind = "return") =>
        /\ Len(requests) = 3
        /\ requests[2].method = "POST" /\ ~IsHTTPError(requests[2].status_code)
        /\ requests[3].method = "GET"
        /\ requests[3].endpoint = <<"/rest/api/3/issue/", call.issue_key>>
        /\ outcome.value.new_status = requests[3].data.fields.status.name
        /\ outcome.value.new_status = remote.status

\* the caller asked for 'In Progress', the one transition of that name was
\* executed, and the remote landed the issue in Done
C5_Witness ==
    /\ call.op = "transition_issue"
    /\ outcome.kind = "return"
    /\ call.transition_name = In_Progress
    /\ Offered[CHOOSE i \in MatchingPositions : TRUE].name = in_progress
    /\ outcome.value.new_status = Done

\* the call is a delete through an entry point that takes confirm_delete
GuardedDelete ==
    call.op = "delete_issue" /\ call.entry \in {"server", "tools"}

\* the delete requests the call sent
DeleteRequests == {k \in 1..Len(requests) : requests[k].method = "DELETE"}

\* C6: a delete through the server or the tools entry point with
\* confirm_delete false raises the confirmation error having sent no request
\* and acquired no client, and only a call with confirm_delete true sends a
\* DELETE request.
C6_DeleteNeedsConfirmation ==
    GuardedDelete =>
        /\ ~call.confirm_delete =>
              /\ outcome.kind = "raise"
              /\ outcome.error = "ConfirmationRequired"
              /\ requests = <<>>
              /\ ~acquired
        /\ DeleteRequests # {} => call.confirm_delete

\* a tools delete of an issue the remote holds, with credentials in place and
\* confirm_delete false, is refused
C6_Witness ==
    /\ GuardedDelete /\ call.entry = "tools"
    /\ ~call.confirm_delete
    /\ credentials
    /\ remote.exists /\ remote.key = call.issue_key
    /\ outcome.kind = "raise" /\ outcome.error = "ConfirmationRequired"

\* the call is an update that names no field to change
EmptyUpdate ==
    /\ call.op = "update_issue"
    /\ Len(call.fields) = 0
    /\ ~truthy(call.custom_fields)

\* the update requests the call sent
UpdateRequests == {k \in 1..Len(requests) : requests[k].method = "PUT"}

\* C7: an update that names no field to change raises an error and sends no
\* PUT request, through every entry point.
C7_EmptyUpdateIsRefused ==
    EmptyUpdate =>
        /\ outcome.kind = "raise"
        /\ UpdateRequests = {}

\* the text is a document's text read back
ReadBackDone == call.op = "_extract_description" /\ call.made_from # None

\* C8: a text formatted as a document and read back is the text again.
C8_RoundTripIsIdentity ==
    ReadBackDone => outcome.value = call.made_from

\* the friendly names a mapping gives
FriendlyNames(mapping) == {mapping[i][2] : i \in 1..Len(mapping)}

\* C9: the reverse mapping of a project has as many entries as its mapping,
\* no two ids of which share a name, and takes every name back to its id.
C9_ReverseMappingIsBijection ==
    call.op = "get_reverse_mapping" =>
        LET mapping == get_field_mapping(call.project_key)
            reverse == outcome.value
        IN  /\ Cardinality(FriendlyNames(mapping)) = Len(mapping)
            /\ Len(reverse) = Len(mapping)
            /\ \A i \in 1..Len(mapping) :
                  /\ has_key(reverse, mapping[i][2])
                  /\ dict_get(reverse, mapping[i][2]) = mapping[i][1]
            /\ \A j \in 1..Len(reverse) :
                  /\ has_key(mapping, reverse[j][2])
                  /\ dict_get(mapping, reverse[j][2]) = reverse[j][1]

\* the reverse mapping of ITCM, of eight entries, takes approvers to its id
C9_Witness ==
    /\ call.op = "get_reverse_mapping"
    /\ call.project_key = "ITCM"
    /\ Len(outcome.value) = 8
    /\ dict_get(outcome.value, <<"approvers">>) = customfield("10003")

\* two ids of one project of the table share a friendly name
HasCollision(table) ==
    \E p \in 1..Len(table) :
      Cardinality(FriendlyNames(table[p][2])) < Len(table[p][2])

\* C10: a table in which two ids of a project share a name is refused when
\* it is loaded, and no reverse mapping has fewer entries than its mapping.
C10_CollisionIsFatalAtLoad ==
    /\ (call.op = "import field_mappings" /\ HasCollision(field_table)) =>
          outcome.kind = "raise"
    /\ call.op = "get_reverse_mapping" =>
          Len(outcome.value) = Len(get_field_mapping(call.project_key))

\* the items of the overflow bag of a map_custom_fields result, if it has one
OverflowOf(result) ==
    IF has_key(result, <<"custom_fields">>)
    THEN dict_get(result, <<"custom_fields">>)
    ELSE <<>>

\* the positions of a map_custom_fields result that hold a friendly name
FriendlyPositions(result) ==
    {i \in 1..Len(result) : result[i][1] # <<"custom_fields">>}

\* C11: map_custom_fields emits nothing for a custom field whose raw value is
\* null, neither its friendly name nor its id in the overflow bag, and every
\* value it emits is the non-null value of a raw custom field.
C11_NullFieldsAreSkipped ==
    call.op = "map_custom_fields" =>
        LET raw == call.raw_fields
            result == outcome.value
            overflow == OverflowOf(result)
            mapping == get_field_mapping(call.project_key)
        IN  /\ \A k \in 1..Len(raw) :
                  (startswith(raw[k][1], <<"customfield_">>) /\ raw[k][2] = Null) =>
                      /\ ~has_key(overflow, raw[k][1])
                      /\ has_key(mapping, raw[k][1]) =>
                            \A i \in FriendlyPositions(result) :
                                result[i][1] # dict_get(mapping, raw[k][1])
            /\ \A i \in FriendlyPositions(result) : result[i][2] # Null
            /\ \A j \in 1..Len(overflow) : overflow[j][2] # Null

\* ITCM: a null work type beside a risk level and an unmapped field, both set
C11_Witness ==
    /\ call.op = "map_custom_fields"
    /\ call.project_key = "ITCM"
    /\ has_key(call.raw_fields, customfield("10055"))
    /\ dict_get(call.raw_fields, customfield("10055")) = Null
    /\ has_key(outcome.value, <<"risk_level">>)
    /\ has_key(OverflowOf(outcome.value), customfield("99999"))
    /\ ~has_key(outcome.value, <<"work_type">>)

\* the key reverse_map_fields gives a name of the call's project
Relabelled(name) ==
    LET reverse == get_reverse_mapping(call.project_key)
    IN  IF has_key(reverse, name) THEN dict_get(reverse, name) ELSE name

\* C12 as stated: every entry given to reverse_map_fields is in its result,
\* under the id of its name if the project knows the name and under its own
\* key otherwise, with the value it was given.
C12_EveryEntryIsRelabelled ==
    call.op = "reverse_map_fields" =>
        \A i \in 1..Len(call.friendly_fields) :
            /\ has_key(outcome.value, Relabelled(call.friendly_fields[i][1]))
            /\ dict_get(outcome.value, Relabelled(call.friendly_fields[i][1]))
                  = call.friendly_fields[i][2]

\* C12 as amended: the result's keys are the relabelled keys of the entries
\* given, every entry of the result is an entry given, relabelled, with its
\* value, and an entry given is in the result unless a later one is relabelled
\* to the same key.
C12_LastEntryOfAKeyIsRelabelled ==
    call.op = "reverse_map_fields" =>
        LET given == call.friendly_fields
            result == outcome.value
        IN  /\ \A i \in 1..Len(given) :
                  /\ has_key(result, Relabelled(given[i][1]))
                  /\ (\A j \in (i + 1)..Len(given) :
                         Relabelled(given[j][1]) # Relabelled(given[i][1])) =>
                        dict_get(result, Relabelled(given[i][1])) = given[i][2]
            /\ \A r \in 1..Len(result) :
                  \E i \in 1..Len(given) :
                      /\ Relabelled(given[i][1]) = result[r][1]
                      /\ given[i][2] = result[r][2]

\* ITCM: a summary, a work type and a risk level become a summary and two ids
C12_Witness ==
    /\ call.op = "reverse_map_fields"
    /\ call.project_key = "ITCM"
    /\ Len(call.friendly_fields) = 3
    /\ call.friendly_fields[1][1] = <<"summary">>
    /\ call.friendly_fields[2][1] = <<"work_type">>
    /\ call.friendly_fields[3][1] = <<"risk_level">>
    /\ call.friendly_fields[2][2] = Str(<<"H","i","g","h">>)
    /\ outcome.value[1][1] = <<"summary">>
    /\ outcome.value[2] = <<customfield("10055"), Str(<<"H","i","g","h">>)>>
    /\ outcome.value[3][1] = customfield("10059")

\* the search reached a client: no by-standing failure to get one
SearchSent ==
    /\ call.op = "search_issues"
    /\ outcome # CredentialsMissing

\* C13: a search sends one request, whose limit is the smaller of the limit
\* asked for and 100; a limit above 100 is not refused.
C13_LimitIsClamped ==
    SearchSent =>
        /\ Len(requests) = 1
        /\ requests[1].params.maxResults =
              (IF call.max_results < 100 THEN call.max_results ELSE 100)
        /\ requests[1].params.maxResults <= 100

\* 500 results asked of the server's tool: 100 asked of the remote, which answers
C13_Witness ==
    /\ SearchSent
    /\ call.entry = "server"
    /\ call.max_results = 500
    /\ requests[1].params.maxResults = 100
    /\ outcome.kind = "return"
    /\ outcome.value.total = 7

\* the create requests the call sent
CreateSent ==
    /\ call.op = "create_issue"
    /\ Len(requests) > 0

\* the fields of the payload of the create request
CreateFields == requests[1].json.fields

\* C14 as stated: a create request carries a description and a priority; the
\* description is the document made of the summary when none was supplied
\* and of the supplied description otherwise, the priority is Medium when
\* none was supplied and the supplied priority otherwise.
C14_SuppliedIsNeverDefaulted ==
    CreateSent =>
        /\ has_key(CreateFields, <<"description">>)
        /\ has_key(CreateFields, <<"priority">>)
        /\ dict_get(CreateFields, <<"description">>) =
              (IF call.description = None THEN _to_adf(call.summary)
               ELSE _to_adf(call.description))
        /\ dict_get(CreateFields, <<"priority">>).name =
              (IF call.priority = None THEN <<"M","e","d","i","u","m">>
               ELSE call.priority)

\* an argument is missing: left out, or the empty string
Missing(argument) == argument = None \/ argument = <<>>

\* C14 as amended: the same, an empty description or priority counting as
\* none supplied.
C14_EmptyCountsAsMissing ==
    CreateSent =>
        /\ has_key(CreateFields, <<"description">>)
        /\ has_key(CreateFields, <<"priority">>)
        /\ dict_get(CreateFields, <<"description">>) =
              (IF Missing(call.description) THEN _to_adf(call.summary)
               ELSE _to_adf(call.description))
        /\ dict_get(CreateFields, <<"priority">>).name =
              (IF Missing(call.priority) THEN <<"M","e","d","i","u","m">>
               ELSE call.priority)

\* a create with neither: the summary's document and Medium are sent
C14_Witness ==
    /\ CreateSent
    /\ call.description = None
    /\ call.priority = None
    /\ dict_get(CreateFields, <<"description">>) = _to_adf(<<"T","E","S","T">>)
    /\ dict_get(CreateFields, <<"priority">>) = [name |-> <<"M","e","d","i","u","m">>]
    /\ outcome.kind = "return"

\* C15: over any sequence of calls, a JiraClient is built from credentials at
\* most once.
C15_ClientIsBuiltOnce == constructions <= 1

\* the operations that are about one issue
IssueOperations ==
    {"get_issue", "update_issue", "add_comment", "get_transitions",
     "transition_issue", "delete_issue"}

\* the requests of the call that the remote answered 404
NotFoundAnswers == {k \in 1..Len(requests) : requests[k].status_code = 404}

\* C16: whenever the remote answers 404 to a request of a get, an update, a
\* comment, a transition (its fetch or its execute request) or a delete, the
\* call raises the not-found error naming the issue key.
C16_NotFoundIsMapped ==
    (call.op \in IssueOperations /\ NotFoundAnswers # {}) =>
        /\ outcome.kind = "raise"
        /\ outcome.error = "NotFound"
        /\ outcome.detail.issue_key = call.issue_key

\* C17: an attach_file of a path that does not exist raises the
\* file-not-found error, having acquired no client and sent no request.
C17_MissingFileIsRefusedFirst ==
    (call.op = "attach_file" /\ ~call.file_exists) =>
        /\ outcome.kind = "raise"
        /\ outcome.error = "FileNotFound"
        /\ ~acquired
        /\ requests = <<>>

\* the project of an issue key
ProjectOf(issue_key) ==
    CASE issue_key = "ITPROJ-1" -> "ITPROJ"
      [] issue_key = "ITCM-7"   -> "ITCM"
      [] issue_key = "ITPROJ-2" -> "ITPROJ"
      [] issue_key = "ITCM-8"   -> "ITCM"

\* the name a friendly field or the overflow bag has as an attribute
AttributeOf(name) == name[1]

\* C18: a get that returns gives every non-null custom field of the remote's
\* answer, under its friendly name when the project of the issue maps its id
\* and in the overflow bag otherwise.
C18_CustomFieldsAreReturned ==
    (call.op = "get_issue" /\ outcome.kind = "return") =>
        LET custom == requests[1].data.fields.custom
            mapping == get_field_mapping(ProjectOf(call.issue_key))
            result == outcome.value
        IN  \A k \in 1..Len(custom) :
              custom[k][2] # Null =>
                IF has_key(mapping, custom[k][1])
                THEN AttributeOf(dict_get(mapping, custom[k][1])) \in DOMAIN result
                ELSE /\ "custom_fields" \in DOMAIN result
                     /\ has_key(result.custom_fields, custom[k][1])

\* C19: a call that received an answer whose status is not 2xx raises.
C19_NoErrorIsSwallowed ==
    (call # NoCall /\ \E k \in 1..Len(requests) : ~IsSuccess(requests[k].status_code)) =>
        outcome.kind = "raise"

\* the request as sent: its method, where to, and what with
AsSent(request) == <<request.method, request.endpoint, request.json>>

\* C20: within a call no request is sent twice, no request follows an answer
\* of status 4xx or 5xx, and the call that received one raises.
C20_NoRetries ==
    call # NoCall =>
        /\ \A i, j \in 1..Len(requests) :
              i < j => AsSent(requests[i]) # AsSent(requests[j])
        /\ \A k \in 1..Len(requests) :
              IsHTTPError(requests[k].status_code) =>
                  /\ k = Len(requests)
                  /\ outcome.kind = "raise"

\* an update whose PUT was accepted and whose fetch of the issue was answered
\* 500: two requests, and the error raised
C20_Witness ==
    /\ call.op = "update_issue"
    /\ Len(requests) = 2
    /\ requests[1].method = "PUT" /\ requests[1].status_code = 204
    /\ requests[2].method = "GET" /\ requests[2].status_code = 500
    /\ outcome.kind = "raise"
    /\ outcome.error = "HTTPError"

\* C21: a create that returns gives a key of the project asked for and the
\* URL base_url + "/browse/" + key; and the get of that key that follows a
\* create without description, answered by a remote that kept the fields it
\* was sent, returns the summary given as its summary and as its description.
C21_CreatedIssueReadsBack ==
    /\ (call.op = "create_issue" /\ outcome.kind = "return") =>
          /\ ProjectOf(outcome.value.key) = call.project
          /\ outcome.value.url = <<base_url, "/browse/", outcome.value.key>>
    /\ (/\ call.op = "get_issue"
        /\ "created" \in DOMAIN call
        /\ call.created.description = None
        /\ outcome.kind = "return") =>
          /\ outcome.value.key = call.issue_key
          /\ outcome.value.summary = call.created.summary
          /\ outcome.value.description = call.created.summary

\* the task "Test", created without description, is read back
C21_Witness ==
    /\ call.op = "get_issue"
    /\ "created" \in DOMAIN call
    /\ call.created.project = "ITPROJ"
    /\ call.created.summary = <<"T","e","s","t">>
    /\ call.created.description = None
    /\ call.issue_key = "ITPROJ-2"
    /\ outcome.kind = "return"
    /\ outcome.value.description = <<"T","e","s","t">>

\* C22: however the steps of the threads that run _get_client interleave, a
\* JiraClient is built at most once, and the threads that were returned a
\* client were returned the same one.
C22_ConcurrentFirstUseBuildsOnce ==
    /\ constructions <= 1
    /\ \A t, u \in Threads :
          (call[t].pc = "returned" /\ call[u].pc = "returned") =>
              call[t].returned = call[u].returned

\* the number of newlines of a text
RECURSIVE Newlines(_)
Newlines(text) ==
    IF text = <<>> THEN 0
    ELSE (IF text[1] = "\n" THEN 1 ELSE 0) + Newlines(Tail(text))

\* C23: the document _to_adf makes of a text has one paragraph per line of
\* text.split("\n"), in order, so one more than the text has newlines and
\* never none; the paragraph of a non-empty line has one text run, holding
\* the line, and the paragraph of an empty line has no content.
C23_OneParagraphPerLine ==
    (call.op = "_to_adf" /\ outcome.kind = "return") =>
        LET lines == split(call.text, "\n")
            document == outcome.value.items
            paragraphs == document.content
        IN  /\ document.type = "doc"
            /\ Len(paragraphs) = Len(lines)
            /\ Len(paragraphs) = Newlines(call.text) + 1
            /\ Len(paragraphs) >= 1
            /\ \A i \in 1..Len(paragraphs) :
                  /\ paragraphs[i].type = "paragraph"
                  /\ IF lines[i] # <<>>
                     THEN paragraphs[i].content = <<[type |-> "text", text |-> lines[i]]>>
                     ELSE paragraphs[i].content = <<>>
            /\ (call.text = <<>>) =>
                  paragraphs = <<[type |-> "paragraph", content |-> <<>>]>>

\* a text of three lines, the second empty, is formatted
C23_Witness ==
    /\ call.op = "_to_adf"
    /\ call.text = Line_1 \o Newline \o Newline \o Line_3
    /\ Len(outcome.value.items.content) = 3
    /\ outcome.value.items.content[2].content = <<>>
    /\ outcome.value.items.content[3].content = <<[type |-> "text", text |-> Line_3]>>

\* the description is a document: a dict whose type is "doc"
IsDocument(description) ==
    /\ description # Null
    /\ description.py = "dict"
    /\ "type" \in DOMAIN description.items
    /\ description.items.type = "doc"

\* the paragraphs of a document
ParagraphsOf(description) ==
    IF "content" \in DOMAIN description.items
    THEN SelectSeq(description.items.content, LAMBDA node : node.type = "paragraph")
    ELSE <<>>

\* the text runs of a paragraph
RunsOf(paragraph) ==
    IF "content" \in DOMAIN paragraph
    THEN SelectSeq(paragraph.content, LAMBDA item : item.type = "text")
    ELSE <<>>

\* the text of a paragraph: its runs one after the other
RECURSIVE RunsTogether(_)
RunsTogether(runs) ==
    IF runs = <<>> THEN <<>> ELSE runs[1].text \o RunsTogether(Tail(runs))

\* the document has a text run
HasText(description) ==
    \E i \in 1..Len(ParagraphsOf(description)) :
      RunsOf(ParagraphsOf(description)[i]) # <<>>

\* every paragraph of the document has a text run
EveryParagraphHasText(description) ==
    /\ ParagraphsOf(description) # <<>>
    /\ \A i \in 1..Len(ParagraphsOf(description)) :
          RunsOf(ParagraphsOf(description)[i]) # <<>>

\* C24: what _extract_description returns for a document is the texts of its
\* paragraphs joined with "\n", the text of a paragraph being its text runs
\* one after the other with nothing between them; stated of the documents
\* whose paragraphs all have text.
C24_NewlineBetweenParagraphsOnly ==
    (/\ call.op = "_extract_description"
     /\ IsDocument(call.description)
     /\ EveryParagraphHasText(call.description)) =>
        LET paragraphs == ParagraphsOf(call.description)
        IN  outcome.value =
              join(Newline, [i \in 1..Len(paragraphs) |->
                               RunsTogether(RunsOf(paragraphs[i]))])

\* C25: _extract_description returns None for None and for a document
\* without text, and str(value) for every other value, the empty str, zero
\* and the empty dict among them.
C25_FallbackIsStringCoercion ==
    (call.op = "_extract_description") =>
        IF call.description = Null
        THEN outcome.value = None
        ELSE IF IsDocument(call.description)
        THEN ~HasText(call.description) => outcome.value = None
        ELSE outcome.value = str(call.description)

\* the k-th raw field of the call is a custom field with a value
IsSetCustomField(k) ==
    /\ startswith(call.raw_fields[k][1], <<"customfield_">>)
    /\ call.raw_fields[k][2] # Null

\* the project of the call maps the id of the k-th raw field
IsMapped(k) == has_key(get_field_mapping(call.project_key), call.raw_fields[k][1])

\* the friendly name of the k-th raw field
FriendlyName(k) == dict_get(get_field_mapping(call.project_key), call.raw_fields[k][1])

\* C26: in the result of map_custom_fields every custom field with a value is
\* once: under its friendly name and not in the overflow bag if the project
\* maps its id, under its id in the overflow bag and not beside it otherwise;
\* nothing else is in the result; an unknown project gives no friendly name;
\* and the overflow bag is there exactly if it holds a field.
C26_CustomFieldsArePartitioned ==
    call.op = "map_custom_fields" =>
        LET raw == call.raw_fields
            result == outcome.value
            overflow == OverflowOf(result)
            SetCustom == {k \in 1..Len(raw) : IsSetCustomField(k)}
        IN  /\ \A k \in SetCustom :
                  IF IsMapped(k)
                  THEN /\ Cardinality({i \in FriendlyPositions(result) :
                                         result[i][1] = FriendlyName(k)}) = 1
                       /\ dict_get(result, FriendlyName(k)) = raw[k][2]
                       /\ ~has_key(overflow, raw[k][1])
                       /\ ~has_key(result, raw[k][1])
                  ELSE /\ Cardinality({j \in 1..Len(overflow) :
                                         overflow[j][1] = raw[k][1]}) = 1
                       /\ dict_get(overflow, raw[k][1]) = raw[k][2]
                       /\ ~has_key(result, raw[k][1])
            /\ \A i \in FriendlyPositions(result) :
                  \E k \in SetCustom : IsMapped(k) /\ FriendlyName(k) = result[i][1]
            /\ \A j \in 1..Len(overflow) :
                  \E k \in SetCustom : ~IsMapped(k) /\ raw[k][1] = overflow[j][1]
            /\ get_field_mapping(call.project_key) = <<>> =>
                  FriendlyPositions(result) = {}
            /\ has_key(result, <<"custom_fields">>) <=>
                  \E k \in SetCustom : ~IsMapped(k)

\* ITCM, given a summary, a risk level by its id and a field it does not map:
\* the risk level by its name, the other in the overflow bag, no summary
C26_Witness ==
    /\ call.op = "map_custom_fields"
    /\ call.project_key = "ITCM"
    /\ has_key(call.raw_fields, <<"summary">>)
    /\ has_key(call.raw_fields, customfield("10059"))
    /\ has_key(call.raw_fields, customfield("99999"))
    /\ has_key(outcome.value, <<"risk_level">>)
    /\ ~has_key(outcome.value, <<"summary">>)
    /\ Len(OverflowOf(outcome.value)) = 1

\* the call is one that resolves transitions and got as far as the method
ResolvesTransitions ==
    /\ call # NoCall
    /\ call.op \in {"transition_issue", "get_transitions"}
    /\ ~(outcome.kind = "raise" /\ outcome.error = "CredentialsMissing")

\* C27: a get_transitions or transition_issue call first fetches the
\* transitions of its issue, and works with the list of that response: what
\* get_transitions returns is that list, the transition executed is one of
\* that list, and the names an error gives are the names of that list.
C27_TransitionsAreFetchedByEachCall ==
    ResolvesTransitions =>
        /\ Len(requests) >= 1
        /\ requests[1].method = "GET"
        /\ requests[1].endpoint = <<"/rest/api/3/issue/", call.issue_key, "/transitions">>
        /\ (call.op = "get_transitions" /\ outcome.kind = "return") =>
              /\ Len(outcome.value) = Len(Offered)
              /\ \A i \in 1..Len(Offered) :
                    /\ outcome.value[i].id = Offered[i].id
                    /\ outcome.value[i].name = Offered[i].name
        /\ (call.op = "transition_issue" /\ ExecuteRequests # {}) =>
              \E i \in MatchingPositions :
                  requests[2].json.transition.id = Offered[i].id
        /\ (/\ call.op = "transition_issue"
            /\ outcome.kind = "raise"
            /\ outcome.error = "TransitionNotAvailable") =>
              outcome.detail.available = join(CommaSpace, NamesAt(1..Len(Offered), 1))

\* a get_transitions of an issue that is Done returns the two transitions the
\* remote offers it now
C27_Witness ==
    /\ call.op = "get_transitions"
    /\ remote.status = Done
    /\ outcome.kind = "return"
    /\ Len(requests) = 1
    /\ Len(Offered) = 2
    /\ outcome.value[1].name = Offered[1].name
    /\ outcome.value[2].name = Offered[2].name

\* the fields of the update request the call sent
UpdateSent == requests[1].json.fields

\* C28: the update request of an update_issue carries fields the caller gave
\* and no other, the labels as the list given and the components as the
\* names given, in order; the issue is fetched only after an update request
\* that was not answered 4xx or 5xx, and after nothing else; an update that
\* returns returns the `updated` of that fetch; and an update request
\* answered 4xx or 5xx is the last request of the call, which raises.
C28_UpdateThenRefetch ==
    (call.op = "update_issue" /\ requests # <<>>) =>
        /\ requests[1].method = "PUT"
        /\ requests[1].endpoint = <<"/rest/api/3/issue/", call.issue_key>>
        /\ \A i \in 1..Len(UpdateSent) : has_key(call.fields, UpdateSent[i][1])
        /\ has_key(call.fields, <<"labels">>) =>
              /\ has_key(UpdateSent, <<"labels">>)
              /\ dict_get(UpdateSent, <<"labels">>) = dict_get(call.fields, <<"labels">>)
        /\ has_key(call.fields, <<"components">>) =>
              /\ has_key(UpdateSent, <<"components">>)
              /\ LET given == dict_get(call.fields, <<"components">>)
                     sent == dict_get(UpdateSent, <<"components">>)
                 IN  /\ Len(sent) = Len(given)
                     /\ \A i \in 1..Len(given) : sent[i] = [name |-> given[i]]
        /\ Len(requests) <= 2
        /\ Len(requests) = 2 =>
              /\ ~IsHTTPError(requests[1].status_code)
              /\ requests[2].method = "GET"
              /\ requests[2].endpoint = <<"/rest/api/3/issue/", call.issue_key>>
        /\ IsHTTPError(requests[1].status_code) =>
              /\ Len(requests) = 1
              /\ outcome.kind = "raise"
        /\ outcome.kind = "return" =>
              /\ Len(requests) = 2
              /\ IsSuccess(requests[2].status_code)
              /\ outcome.value.key = call.issue_key
              /\ outcome.value.updated = requests[2].data.fields.updated

\* the labels alone are updated: the request carries the labels and nothing
\* else, it is accepted, and the timestamp is that of the fetch that follows
C28_Witness ==
    /\ call.op = "update_issue"
    /\ call.fields = <<<<<<"labels">>, <<<<"o","p","s">>>>>>>>
    /\ Len(requests) = 2
    /\ UpdateSent = <<<<<<"labels">>, <<<<"o","p","s">>>>>>>>
    /\ requests[1].status_code = 204
    /\ outcome.kind = "return"
    /\ outcome.value.updated = "2026-02-04T11:00"

\* the call failed for want of credentials
FailedForCredentials ==
    outcome.kind = "raise" /\ outcome.error = "CredentialsMissing"

\* C29, while no credentials are stored: a call that runs _get_client fails
\* with the credentials error having sent no request, no JiraClient has been
\* built, and the handle is unset.
C29_NothingWithoutCredentials ==
    ~credentials =>
        /\ _client = None
        /\ constructions = 0
        /\ acquired =>
              /\ FailedForCredentials
              /\ requests = <<>>

\* C29, once they are: a call that runs _get_client does not fail for want
\* of credentials, a call through server.py leaves the handle set, and the
\* first one builds the client.
C29_ProceedsWithCredentials ==
    (call = NoCall /\ call' # NoCall /\ acquired' /\ credentials) =>
        /\ ~FailedForCredentials'
        /\ call'.entry = "server" =>
              /\ _client' = JiraClient
              /\ (_client = None /\ constructions < MaxConstructions) =>
                    constructions' = constructions + 1

\* C29: the credentials error at first use, and the recovery from it.
C29_CredentialsMissingAtFirstUse ==
    []C29_NothingWithoutCredentials /\ [][C29_ProceedsWithCredentials]_vars

\* a tool of server.py, called with no credentials stored, fails and leaves
\* the handle unset
C29_Witness ==
    /\ call # NoCall
    /\ call.entry = "server"
    /\ acquired
    /\ ~credentials
    /\ FailedForCredentials
    /\ _client = None
    /\ requests = <<>>

\* the resolution of the call's target failed: nothing offered, no match, or
\* more than one
ResolutionFailed ==
    TransitionsFetched /\ Cardinality(MatchingPositions) # 1

\* C30, of the requests of a transition_issue: an execute request is sent
\* only when exactly one offered transition matched; a failed resolution
\* raises after the one fetch of the transitions; a call that returns sent
\* the fetch of the transitions, the execute request and the fetch of the
\* issue, in this order and nothing else; and an execute request answered
\* 4xx or 5xx is the last request of the call.
C30_RequestsOfATransition ==
    (call.op = "transition_issue" /\ requests # <<>>) =>
        /\ requests[1].method = "GET"
        /\ requests[1].endpoint = <<"/rest/api/3/issue/", call.issue_key, "/transitions">>
        /\ ExecuteRequests # {} =>
              /\ ExecuteRequests = {2}
              /\ TransitionsFetched
              /\ Cardinality(MatchingPositions) = 1
        /\ ResolutionFailed =>
              /\ Len(requests) = 1
              /\ outcome.kind = "raise"
        /\ outcome.kind = "return" =>
              /\ Len(requests) = 3
              /\ requests[2].method = "POST"
              /\ requests[2].endpoint =
                    <<"/rest/api/3/issue/", call.issue_key, "/transitions">>
              /\ requests[3].method = "GET"
              /\ requests[3].endpoint = <<"/rest/api/3/issue/", call.issue_key>>
        /\ (Len(requests) >= 2 /\ IsHTTPError(requests[2].status_code)) =>
              /\ Len(requests) = 2
              /\ outcome.kind = "raise"

\* C30, of the remote: a transition_issue that sent no execute request, or
\* whose execute request was answered 4xx or 5xx, leaves the issue as it was.
C30_FrameOfATransition ==
    (call = NoCall /\ call' # NoCall /\ call'.op = "transition_issue") =>
        ((ExecuteRequests' = {} \/ IsHTTPError(requests'[2].status_code)) =>
            remote' = remote)

\* C30: which requests a transition sends, and when it leaves the remote alone.
C30_TransitionOrderAndFrame ==
    []C30_RequestsOfATransition /\ [][C30_FrameOfATransition]_vars

\* 'Cancelled' among three transitions of other names: one request, an error
C30_Witness ==
    /\ TransitionsFetched
    /\ Len(Offered) = 3
    /\ call.transition_name = Cancelled
    /\ ResolutionFailed
    /\ Len(requests) = 1
    /\ ExecuteRequests = {}
    /\ outcome.kind = "raise"

====
